---- MODULE Spec2Model ----
(***************************************************************************)
(* Gemini: the layout-constraint solver of Image (core/Image.h,            *)
(* core/Image.cpp), the canvas tree (core/Canvas.h, core/Canvas.cpp) and   *)
(* the depth-buffered raster (core/Bitmap.h, core/Bitmap.cpp).             *)
(*                                                                         *)
(* Doubles are modelled as exact rationals <<n, d>> (d > 0, lowest terms); *)
(* the quiet NaN is the pair <<0, 0>>.  Every magnitude the model feeds to *)
(* the solver is a dyadic rational of small size, which a double holds     *)
(* exactly.                                                                *)
(***************************************************************************)
EXTENDS Integers, Sequences, FiniteSets, TLC

(***************************************************************************)
(* Bounds of the model.                                                    *)
(***************************************************************************)
MaxCanvases == 2

MaxFixes == 2

MaxScenarioFixes == 4

MaxShapes == 1

\* The most canvases and the most shapes of a painted image.
MaxPaintCanvases == 3

MaxPaintShapes == 2

\* The rows of the system Create is called on.
MaxRows == 2

\* The most shapes of a canvas whose coordinates are inferred.
MaxCoordinateShapes == 2

(***************************************************************************)
(* Rational arithmetic standing for double arithmetic.                     *)
(***************************************************************************)
Abs(n) == IF n < 0 THEN -n ELSE n

RECURSIVE GCD(_, _)
GCD(a, b) == IF b = 0 THEN a ELSE GCD(b, a % b)

Rat(n, d) ==
  IF n = 0 THEN <<0, 1>>
  ELSE LET g == GCD(Abs(n), Abs(d))
           s == IF d < 0 THEN -1 ELSE 1
       IN  <<(s * n) \div g, (s * d) \div g>>

R0 == <<0, 1>>

R1 == <<1, 1>>

RInt(n) == <<n, 1>>

RNeg(a) == <<-a[1], a[2]>>

RAdd(a, b) ==
  IF a[1] = 0 THEN b
  ELSE IF b[1] = 0 THEN a
  ELSE Rat(a[1] * b[2] + b[1] * a[2], a[2] * b[2])

RSub(a, b) == RAdd(a, RNeg(b))

RMul(a, b) ==
  IF a[1] = 0 \/ b[1] = 0 THEN R0 ELSE Rat(a[1] * b[1], a[2] * b[2])

RDiv(a, b) == Rat(a[1] * b[2], a[2] * b[1])

RAbs(a) == <<Abs(a[1]), a[2]>>

RLess(a, b) == a[1] * b[2] < b[1] * a[2]

\* static_cast<int>(double): truncation toward zero.
Truncate(a) ==
  IF a[1] >= 0 THEN a[1] \div a[2] ELSE -((-a[1]) \div a[2])

(***************************************************************************)
(* Eigen::MatrixXd, as a sequence of rows of rationals.                    *)
(***************************************************************************)
\* A sequence given by a rule, held as an explicit tuple of its elements.
Tabulate(f) == SubSeq(f, 1, Len(f))

\* Body applied to a value that is computed once, as a C++ local is.
Bind(value, Body(_)) == CHOOSE result \in {Body(v) : v \in {value}} : TRUE

ZeroMatrix(rows, cols) ==
  Tabulate([i \in 1..rows |-> Tabulate([j \in 1..cols |-> R0])])

NumRows(M) == Len(M)

NumCols(M) == IF Len(M) = 0 THEN 0 ELSE Len(M[1])

\* relationships(index, col) += value, index and col counted from 0 as in the
\* code.  A column past the last one addresses memory outside the matrix
\* buffer (column-major storage), so no coefficient of the matrix changes.
AddCoefficient(relationships, index, col, value) ==
  Bind(relationships, LAMBDA m :
    IF index + 1 \in 1..NumRows(m) /\ col + 1 \in 1..NumCols(m)
    THEN [m EXCEPT ![index + 1][col + 1] = RAdd(@, value)]
    ELSE m)

Half(value) == RMul(<<1, 2>>, value)

\* AddToMatrixForCanvasPart with the whole coefficient on each side of a centre.
AddToMatrixForCanvasPartWhole(index, value, part, locatable_index, relationships) ==
  CASE part = "Left" ->
         AddCoefficient(relationships, index, 4 * locatable_index + 0, value)
    [] part = "Right" ->
         AddCoefficient(relationships, index, 4 * locatable_index + 2, value)
    [] part = "Bottom" ->
         AddCoefficient(relationships, index, 4 * locatable_index + 1, value)
    [] part = "Top" ->
         AddCoefficient(relationships, index, 4 * locatable_index + 3, value)
    [] part = "CenterX" ->
         AddCoefficient(
           AddCoefficient(relationships, index, 4 * locatable_index + 0, value),
           index, 4 * locatable_index + 2, value)
    [] part = "CenterY" ->
         AddCoefficient(
           AddCoefficient(relationships, index, 4 * locatable_index + 1, value),
           index, 4 * locatable_index + 3, value)

AddToMatrixForCanvasPart(index, value, part, locatable_index, relationships) ==
  CASE part = "Left" ->
         AddCoefficient(relationships, index, 4 * locatable_index + 0, value)
    [] part = "Right" ->
         AddCoefficient(relationships, index, 4 * locatable_index + 2, value)
    [] part = "Bottom" ->
         AddCoefficient(relationships, index, 4 * locatable_index + 1, value)
    [] part = "Top" ->
         AddCoefficient(relationships, index, 4 * locatable_index + 3, value)
    [] part = "CenterX" ->
         AddCoefficient(
           AddCoefficient(relationships, index, 4 * locatable_index + 0, Half(value)),
           index, 4 * locatable_index + 2, Half(value))
    [] part = "CenterY" ->
         AddCoefficient(
           AddCoefficient(relationships, index, 4 * locatable_index + 1, Half(value)),
           index, 4 * locatable_index + 3, Half(value))

SetConstant(constants, index, value) ==
  IF index + 1 \in 1..Len(constants)
  THEN [constants EXCEPT ![index + 1] = value]
  ELSE constants

(***************************************************************************)
(* IndexedLocatables: objs_ is a sequence of object identities.            *)
(***************************************************************************)
Contains(objs, loc) == \E i \in 1..Len(objs) : objs[i] = loc

\* std::find + std::distance: the position counted from 0, or the size of
\* the container when the pointer is not in it.
GetIndex(objs, ptr) ==
  IF Contains(objs, ptr)
  THEN (CHOOSE i \in 1..Len(objs) :
          objs[i] = ptr /\ \A j \in 1..(i - 1) : objs[j] # ptr) - 1
  ELSE Len(objs)

(***************************************************************************)
(* The four kinds of Fix and the row each writes.  A system is the pair    *)
(* [relationships, constants].                                             *)
(***************************************************************************)
FixRelationship(c1, p1, c2, p2, diff) ==
  [kind |-> "FixRelationship", canvas1_num |-> c1, canvas2_num |-> c2,
   canvas1_part |-> p1, canvas2_part |-> p2, pixels_diff |-> diff]

FixDimensions(loc, dim, len) ==
  [kind |-> "FixDimensions", locatable |-> loc, dimension |-> dim, extent |-> len]

FixScale(c1, p1, c2, dim, lambda) ==
  [kind |-> "FixScale", canvas1_num |-> c1, canvas2_num |-> c2,
   canvas1_part |-> p1, dimension |-> dim, lambda |-> lambda]

FixRelativeSize(c1, d1, c2, d2, scale) ==
  [kind |-> "FixRelativeSize", canvas1_num |-> c1, canvas2_num |-> c2,
   canvas1_dimension |-> d1, canvas2_dimension |-> d2, scale |-> scale]

\* FixRelationship::Create with the two coefficients exchanged.
FixRelationshipCreateSwapped(fix, index, sys, objs) ==
  LET idx1 == GetIndex(objs, fix.canvas1_num)
      idx2 == GetIndex(objs, fix.canvas2_num)
      m1 == AddToMatrixForCanvasPart(index, R1, fix.canvas1_part, idx1,
                                     sys.relationships)
      m2 == AddToMatrixForCanvasPart(index, RNeg(R1), fix.canvas2_part, idx2, m1)
  IN  [relationships |-> m2,
       constants |-> SetConstant(sys.constants, index, fix.pixels_diff)]

FixRelationshipCreate(fix, index, sys, objs) ==
  LET idx1 == GetIndex(objs, fix.canvas1_num)
      idx2 == GetIndex(objs, fix.canvas2_num)
      m1 == AddToMatrixForCanvasPart(index, RNeg(R1), fix.canvas1_part, idx1,
                                     sys.relationships)
      m2 == AddToMatrixForCanvasPart(index, R1, fix.canvas2_part, idx2, m1)
  IN  [relationships |-> m2,
       constants |-> SetConstant(sys.constants, index, fix.pixels_diff)]

\* FixDimensions::Create without its constant.
FixDimensionsCreateNoConstant(fix, index, sys, objs) ==
  LET lidx == GetIndex(objs, fix.locatable)
      lo == IF fix.dimension = "X" THEN "Left" ELSE "Bottom"
      hi == IF fix.dimension = "X" THEN "Right" ELSE "Top"
      m1 == AddToMatrixForCanvasPart(index, RNeg(R1), lo, lidx, sys.relationships)
      m2 == AddToMatrixForCanvasPart(index, R1, hi, lidx, m1)
  IN  [relationships |-> m2, constants |-> sys.constants]

\* FixScale::Create with lambda on the low side and 1 - lambda on the high one.
FixScaleCreateEndsSwapped(fix, index, sys, objs) ==
  LET idx1 == GetIndex(objs, fix.canvas1_num)
      idx2 == GetIndex(objs, fix.canvas2_num)
      lo == IF fix.dimension = "X" THEN "Left" ELSE "Bottom"
      hi == IF fix.dimension = "X" THEN "Right" ELSE "Top"
      m1 == AddToMatrixForCanvasPart(index, R1, fix.canvas1_part, idx1,
                                     sys.relationships)
      m2 == AddToMatrixForCanvasPart(index, RNeg(fix.lambda), lo, idx2, m1)
      m3 == AddToMatrixForCanvasPart(index, RNeg(RSub(R1, fix.lambda)), hi, idx2, m2)
  IN  [relationships |-> m3, constants |-> sys.constants]

\* FixRelativeSize::Create taking the extent of both canvases on the dimension
\* of the first.
FixRelativeSizeCreateOneDimension(fix, index, sys, objs) ==
  LET idx1 == GetIndex(objs, fix.canvas1_num)
      idx2 == GetIndex(objs, fix.canvas2_num)
      lo1 == IF fix.canvas1_dimension = "X" THEN "Left" ELSE "Bottom"
      hi1 == IF fix.canvas1_dimension = "X" THEN "Right" ELSE "Top"
      m1 == AddToMatrixForCanvasPart(index, R1, hi1, idx1, sys.relationships)
      m2 == AddToMatrixForCanvasPart(index, RNeg(R1), lo1, idx1, m1)
      m3 == AddToMatrixForCanvasPart(index, RNeg(fix.scale), hi1, idx2, m2)
      m4 == AddToMatrixForCanvasPart(index, fix.scale, lo1, idx2, m3)
  IN  [relationships |-> m4, constants |-> sys.constants]

FixDimensionsCreate(fix, index, sys, objs) ==
  LET lidx == GetIndex(objs, fix.locatable)
      lo == IF fix.dimension = "X" THEN "Left" ELSE "Bottom"
      hi == IF fix.dimension = "X" THEN "Right" ELSE "Top"
      m1 == AddToMatrixForCanvasPart(index, RNeg(R1), lo, lidx, sys.relationships)
      m2 == AddToMatrixForCanvasPart(index, R1, hi, lidx, m1)
  IN  [relationships |-> m2,
       constants |-> SetConstant(sys.constants, index, fix.extent)]

FixScaleCreate(fix, index, sys, objs) ==
  LET idx1 == GetIndex(objs, fix.canvas1_num)
      idx2 == GetIndex(objs, fix.canvas2_num)
      lo == IF fix.dimension = "X" THEN "Left" ELSE "Bottom"
      hi == IF fix.dimension = "X" THEN "Right" ELSE "Top"
      m1 == AddToMatrixForCanvasPart(index, R1, fix.canvas1_part, idx1,
                                     sys.relationships)
      m2 == AddToMatrixForCanvasPart(index, RNeg(RSub(R1, fix.lambda)), lo, idx2, m1)
      m3 == AddToMatrixForCanvasPart(index, RNeg(fix.lambda), hi, idx2, m2)
  IN  [relationships |-> m3, constants |-> sys.constants]

FixRelativeSizeCreate(fix, index, sys, objs) ==
  LET idx1 == GetIndex(objs, fix.canvas1_num)
      idx2 == GetIndex(objs, fix.canvas2_num)
      lo1 == IF fix.canvas1_dimension = "X" THEN "Left" ELSE "Bottom"
      hi1 == IF fix.canvas1_dimension = "X" THEN "Right" ELSE "Top"
      lo2 == IF fix.canvas2_dimension = "X" THEN "Left" ELSE "Bottom"
      hi2 == IF fix.canvas2_dimension = "X" THEN "Right" ELSE "Top"
      m1 == AddToMatrixForCanvasPart(index, R1, hi1, idx1, sys.relationships)
      m2 == AddToMatrixForCanvasPart(index, RNeg(R1), lo1, idx1, m1)
      m3 == AddToMatrixForCanvasPart(index, RNeg(fix.scale), hi2, idx2, m2)
      m4 == AddToMatrixForCanvasPart(index, fix.scale, lo2, idx2, m3)
  IN  [relationships |-> m4, constants |-> sys.constants]

\* Fix::Create, dispatched on the dynamic type of the fix.
Create(fix, index, sys, objs) ==
  CASE fix.kind = "FixRelationship" -> FixRelationshipCreate(fix, index, sys, objs)
    [] fix.kind = "FixDimensions" -> FixDimensionsCreate(fix, index, sys, objs)
    [] fix.kind = "FixScale" -> FixScaleCreate(fix, index, sys, objs)
    [] fix.kind = "FixRelativeSize" -> FixRelativeSizeCreate(fix, index, sys, objs)

\* The locatables a fix names.
FixOperands(fix) ==
  IF fix.kind = "FixDimensions" THEN {fix.locatable}
  ELSE {fix.canvas1_num, fix.canvas2_num}

(***************************************************************************)
(* relationships.fullPivLu().solve(constants): Eigen's FullPivLU.  Gaussian *)
(* elimination with full pivoting; the pivot of step k is the entry of      *)
(* largest magnitude in the corner of rows and columns k.. (the first one   *)
(* met in column-major order on a tie); the decomposition stops at the      *)
(* first corner that is all zero, and the number of steps taken is the      *)
(* rank.  solve() works for any shape of matrix and never throws: it back-  *)
(* substitutes in the leading rank x rank triangle, leaves the remaining    *)
(* rows unexamined and sets the unknowns of the remaining columns to zero.  *)
(***************************************************************************)
\* The row of the first entry of largest magnitude in column j, rows k.. .
BiggestInColumn(A, k, j) ==
  CHOOSE i \in k..NumRows(A) :
    \A i2 \in k..NumRows(A) :
      /\ ~RLess(RAbs(A[i][j]), RAbs(A[i2][j]))
      /\ i2 < i => RLess(RAbs(A[i2][j]), RAbs(A[i][j]))

\* cwiseAbs().maxCoeff(&row, &col) over the bottom-right corner from (k, k):
\* the visitor walks the corner column by column and keeps the first maximum.
BiggestInCorner(A, k) ==
  Bind(Tabulate([j \in 1..NumCols(A) |->
                   IF j < k THEN k ELSE BiggestInColumn(A, k, j)]),
       LAMBDA top :
         LET big(j) == RAbs(A[top[j]][j])
             col == CHOOSE j \in k..NumCols(A) :
                      \A j2 \in k..NumCols(A) :
                        /\ ~RLess(big(j), big(j2))
                        /\ j2 < j => RLess(big(j2), big(j))
         IN  <<top[col], col>>)

Swap(seq, a, b) == [seq EXCEPT ![a] = seq[b], ![b] = seq[a]]

SwapCols(A, a, b) == Tabulate([i \in 1..NumRows(A) |-> Swap(A[i], a, b)])

\* The system d with the pivot piv brought to (k, k): rows k and piv[1] are
\* exchanged, and columns k and piv[2], the exchange of columns being recorded
\* in the permutation q.
Pivoted(d, k, piv) ==
  [A |-> SwapCols(Swap(d.A, k, piv[1]), k, piv[2]),
   c |-> Swap(d.c, k, piv[1]),
   q |-> Swap(d.q, k, piv[2]),
   rank |-> d.rank]

\* One elimination step on the system whose pivot already sits at (k, k).
EliminateBelow(d, k) ==
  LET factor(i) == RDiv(d.A[i][k], d.A[k][k])
  IN  [A |-> Tabulate([i \in 1..NumRows(d.A) |->
                IF i <= k \/ d.A[i][k][1] = 0 THEN d.A[i]
                ELSE Tabulate([j \in 1..NumCols(d.A) |->
                        IF j <= k THEN R0
                        ELSE RSub(d.A[i][j], RMul(factor(i), d.A[k][j]))])]),
       c |-> Tabulate([i \in 1..Len(d.c) |->
                IF i <= k \/ d.A[i][k][1] = 0 THEN d.c[i]
                ELSE RSub(d.c[i], RMul(factor(i), d.c[k]))]),
       q |-> d.q,
       rank |-> d.rank]

\* The decomposition from step k on; d is [A, c, q, rank].
RECURSIVE Decompose(_, _)
Decompose(d, k) ==
  IF k > NumRows(d.A) \/ k > NumCols(d.A)
  THEN [d EXCEPT !.rank = k - 1]
  ELSE Bind(BiggestInCorner(d.A, k), LAMBDA piv :
         IF d.A[piv[1]][piv[2]][1] = 0
         THEN [d EXCEPT !.rank = k - 1]
         ELSE Bind(Pivoted(d, k, piv), LAMBDA p :
                Bind(EliminateBelow(p, k), LAMBDA e : Decompose(e, k + 1))))

RECURSIVE DotTail(_, _, _, _)
DotTail(row, x, j, r) ==
  IF j > r THEN R0 ELSE RAdd(RMul(row[j], x[j]), DotTail(row, x, j + 1, r))

RECURSIVE BackSubstitute(_, _, _)
BackSubstitute(d, i, x) ==
  IF i = 0 THEN x
  ELSE Bind([x EXCEPT ![i] = RDiv(RSub(d.c[i], DotTail(d.A[i], x, i + 1, d.rank)),
                                  d.A[i][i])],
            LAMBDA solved : BackSubstitute(d, i - 1, solved))

\* The system as the decomposition starts on it.
Undecomposed(relationships, constants) ==
  [A |-> relationships, c |-> constants,
   q |-> Tabulate([j \in 1..NumCols(relationships) |-> j]), rank |-> 0]

FullPivLuSolve(relationships, constants) ==
  Bind(Undecomposed(relationships, constants), LAMBDA start :
    Bind(Decompose(start, 1), LAMBDA d :
      Bind(BackSubstitute(d, d.rank, Tabulate([j \in 1..Len(d.q) |-> R0])),
           LAMBDA x :
             Tabulate([col \in 1..Len(d.q) |->
               LET at == CHOOSE i \in 1..Len(d.q) : d.q[i] = col
               IN  IF at <= d.rank THEN x[at] ELSE R0]))))

\* FullPivLU::rank() of the assembled matrix.
Rank(relationships, constants) ==
  Bind(Undecomposed(relationships, constants), LAMBDA start :
    Decompose(start, 1).rank)

(***************************************************************************)
(* Objects.  Canvases are numbered in the order they are created; the      *)
(* master canvas is created by the constructor of the image.  Locatables   *)
(* that are not canvases exist outside the image until they are registered.*)
(***************************************************************************)
master_canvas_ == 1

\* The value canvases_[i].get() reads past the end of canvases_ when it is
\* not the address of a canvas.
JunkPtr == 0

\* A locatable that is not a canvas, and reports a width and a height.
ExtLocatables == {101}

\* Locatable::GetWidth / GetHeight: a one-element sequence for a value, the
\* empty sequence for std::nullopt.  Canvas does not override either.
GetWidth(loc) == IF loc = 101 THEN <<RInt(30)>> ELSE <<>>

GetHeight(loc) == IF loc = 101 THEN <<RInt(20)>> ELSE <<>>

ImageSizes == {<<200, 100>>}

NaN == <<0, 0>>

IsNaN(a) == a[2] = 0

CanvasLocation(l, b, r, t) == [left |-> l, bottom |-> b, right |-> r, top |-> t]

\* CanvasLocation{}: every field value-initialised.
DefaultLocation == CanvasLocation(0, 0, 0, 0)

\* CoordinateDescription{}.
DefaultCoordinates ==
  [has_coordinates |-> FALSE, left |-> NaN, bottom |-> NaN, right |-> NaN, top |-> NaN]

VARIABLES
  width_,             \* Image::Impl::width_
  height_,            \* Image::Impl::height_
  canvases_,          \* Image::Impl::canvases_, in creation order
  locatables_,        \* Image::Impl::locatables_.objs_
  fixes_,             \* Image::Impl::fixes_
  canvas_locations_,  \* Image::Impl::canvas_locations_, a map keyed by Canvas*
  needs_calculate_,   \* Image::Impl::needs_calculate_
  parent_,            \* Canvas::parent_ of every canvas (0 is nullptr)
  child_canvases_,    \* Canvas::child_canvases_ of every canvas
  shapes_,            \* Canvas::shapes_ of every canvas
  paint_background_,  \* Canvas::paint_background_ of every canvas
  coordinate_system_, \* Canvas::coordinate_system_ of every canvas
  located,            \* the last argument SetLocation handed to each locatable
  last,               \* the last call made on the image and how it ended
  alive               \* FALSE once the process has been aborted

imageVars ==
  <<width_, height_, canvases_, locatables_, fixes_, canvas_locations_,
    needs_calculate_, parent_, child_canvases_, shapes_, paint_background_,
    coordinate_system_, located, last, alive>>

NoError == "none"

Call(op, thrown, value, solved) ==
  [op |-> op, thrown |-> thrown, value |-> value, solved |-> solved]

Canvases == {canvases_[i] : i \in 1..Len(canvases_)}

(***************************************************************************)
(* Image::Impl::Impl(width, height): the master canvas is made and         *)
(* registered.                                                             *)
(***************************************************************************)
ImageImpl(width, height) ==
  /\ width_ = width /\ height_ = height
  /\ canvases_ = <<master_canvas_>>
  /\ locatables_ = <<master_canvas_>>
  /\ fixes_ = <<>>
  /\ canvas_locations_ = (master_canvas_ :> DefaultLocation)
  /\ needs_calculate_ = FALSE
  /\ parent_ = (master_canvas_ :> 0)
  /\ child_canvases_ = (master_canvas_ :> <<>>)
  /\ shapes_ = (master_canvas_ :> <<>>)
  /\ paint_background_ = (master_canvas_ :> TRUE)
  /\ coordinate_system_ = (master_canvas_ :> DefaultCoordinates)
  /\ located = << >>
  /\ last = Call("Image", NoError, <<>>, FALSE)
  /\ alive = TRUE

InitImage == \E size \in ImageSizes : ImageImpl(size[1], size[2])

\* Image::Impl::GetLocation, for a canvas the map holds (it fails for others).
GetLocation(canvas) == canvas_locations_[canvas]

(***************************************************************************)
(* IndexedLocatables::Add and Image::Impl::RegisterLocatable.              *)
(***************************************************************************)
\* Add without the test for an element that is already there.
AddAlways(objs, loc) == Append(objs, loc)

\* Add that never stores the element.
AddNothing(objs, loc) == objs

\* The container after Add(loc).
Add(objs, loc) == IF Contains(objs, loc) THEN objs ELSE Append(objs, loc)

\* What Add(loc) returns: the index of the new element, or nullopt.
AddResult(objs, loc) == IF Contains(objs, loc) THEN <<>> ELSE <<Len(objs)>>

RegisterLocatable(loc) ==
  /\ alive
  /\ locatables_' = Add(locatables_, loc)
  /\ last' = Call("RegisterLocatable", NoError, AddResult(locatables_, loc), FALSE)
  /\ UNCHANGED <<width_, height_, canvases_, fixes_, canvas_locations_,
                 needs_calculate_, parent_, paint_background_,
                 child_canvases_, shapes_,
                 coordinate_system_, located, alive>>

(***************************************************************************)
(* Canvas::FloatingSubCanvas with Image::Impl::RegisterCanvas.             *)
(***************************************************************************)
FloatingSubCanvas(parent) ==
  /\ alive
  /\ LET sub_canvas == Len(canvases_) + 1
     IN  /\ canvases_' = Append(canvases_, sub_canvas)
         /\ locatables_' = Add(locatables_, sub_canvas)
         /\ canvas_locations_' =
              IF sub_canvas \in DOMAIN canvas_locations_ THEN canvas_locations_
              ELSE canvas_locations_ @@ (sub_canvas :> DefaultLocation)
         /\ parent_' = parent_ @@ (sub_canvas :> parent)
         /\ child_canvases_' =
              [child_canvases_ EXCEPT ![parent] = Append(@, sub_canvas)]
                @@ (sub_canvas :> <<>>)
         /\ shapes_' = shapes_ @@ (sub_canvas :> <<>>)
         /\ paint_background_' = paint_background_ @@ (sub_canvas :> TRUE)
         /\ coordinate_system_' = coordinate_system_ @@ (sub_canvas :> DefaultCoordinates)
  /\ last' = Call("FloatingSubCanvas", NoError, <<>>, FALSE)
  /\ UNCHANGED <<width_, height_, fixes_, needs_calculate_, located, alive>>

(***************************************************************************)
(* The Fix constructors of the image, AddFix and ClearRelationships.       *)
(***************************************************************************)
AddFix(fix, op) ==
  /\ alive
  /\ fixes_' = Append(fixes_, fix)
  /\ last' = Call(op, NoError, <<>>, FALSE)
  /\ UNCHANGED <<width_, height_, canvases_, locatables_, canvas_locations_,
                 needs_calculate_, parent_, paint_background_,
                 child_canvases_, shapes_,
                 coordinate_system_, located, alive>>

Relation_Fix(canvas1, canvas1_part, canvas2, canvas2_part, pixels_diff) ==
  AddFix(FixRelationship(canvas1, canvas1_part, canvas2, canvas2_part, pixels_diff),
         "Relation_Fix")

Scale_Fix(canvas1, canvas1_part, canvas2, dimension, lambda) ==
  AddFix(FixScale(canvas1, canvas1_part, canvas2, dimension, lambda), "Scale_Fix")

Dimensions_Fix(canvas, dim, extent) ==
  AddFix(FixDimensions(canvas, dim, extent), "Dimensions_Fix")

RelativeSize_Fix(canvas1, dimension1, canvas2, dimension2, scale) ==
  AddFix(FixRelativeSize(canvas1, dimension1, canvas2, dimension2, scale),
         "RelativeSize_Fix")

ClearRelationships ==
  /\ alive
  /\ fixes_' = <<>>
  /\ last' = Call("ClearRelationships", NoError, <<>>, FALSE)
  /\ UNCHANGED <<width_, height_, canvases_, locatables_, canvas_locations_,
                 needs_calculate_, parent_, paint_background_,
                 child_canvases_, shapes_,
                 coordinate_system_, located, alive>>

(***************************************************************************)
(* Canvas::AddShape.  A shape is known to the model by its bounding box.   *)
(***************************************************************************)
AddShape(canvas, shape) ==
  /\ alive
  /\ shapes_' = [shapes_ EXCEPT ![canvas] = Append(@, shape)]
  /\ needs_calculate_' = TRUE
  /\ last' = Call("AddShape", NoError, <<>>, FALSE)
  /\ UNCHANGED <<width_, height_, canvases_, locatables_, fixes_,
                 canvas_locations_, parent_, paint_background_, child_canvases_,
                 coordinate_system_, located, alive>>

\* Canvas::SetPaintBackground.
SetPaintBackground(canvas, flag) ==
  /\ alive
  /\ paint_background_' = [paint_background_ EXCEPT ![canvas] = flag]
  /\ last' = Call("SetPaintBackground", NoError, <<>>, FALSE)
  /\ UNCHANGED <<width_, height_, canvases_, locatables_, fixes_,
                 canvas_locations_, needs_calculate_, parent_, child_canvases_,
                 shapes_, coordinate_system_, located, alive>>

(***************************************************************************)
(* Image::Impl::CalculateCanvasLocations.                                  *)
(***************************************************************************)
Present(optional) == IF optional = <<>> THEN 0 ELSE 1

\* The number of widths and heights the locatables report.
RECURSIVE CountAdditionalFixes(_, _)
CountAdditionalFixes(objs, i) ==
  IF i > Len(objs) THEN 0
  ELSE Present(GetWidth(objs[i])) + Present(GetHeight(objs[i]))
         + CountAdditionalFixes(objs, i + 1)

\* The four rows that pin the master canvas to the image.
MasterRows(rows, cols) ==
  LET zero == ZeroMatrix(rows, cols)
  IN  [relationships |->
         [zero EXCEPT ![1][1] = R1, ![2][2] = R1, ![3][3] = R1, ![4][4] = R1],
       constants |->
         [Tabulate([i \in 1..rows |-> R0]) EXCEPT ![3] = RInt(width_),
                                                  ![4] = RInt(height_)]]

\* The rows made for the locatables that report a width or a height.
RECURSIVE ImplicitRows(_, _, _, _)
ImplicitRows(objs, i, count, sys) ==
  IF i > Len(objs) THEN sys
  ELSE LET loc == objs[i]
           width == GetWidth(loc)
           height == GetHeight(loc)
           c1 == count + Present(width)
       IN  Bind(IF width # <<>>
                THEN FixDimensionsCreate(FixDimensions(loc, "X", width[1]),
                                         4 + count, sys, objs)
                ELSE sys,
                LAMBDA s1 :
                  Bind(IF height # <<>>
                       THEN FixDimensionsCreate(FixDimensions(loc, "Y", height[1]),
                                                4 + c1, s1, objs)
                       ELSE s1,
                       LAMBDA s2 :
                         ImplicitRows(objs, i + 1, c1 + Present(height), s2)))

\* One row for each registered fix, in registration order.
RECURSIVE ExplicitRows(_, _, _, _, _)
ExplicitRows(fixes, objs, additional_fixes, i, sys) ==
  IF i > Len(fixes) THEN sys
  ELSE Bind(Create(fixes[i], 4 + additional_fixes + (i - 1), sys, objs),
            LAMBDA next : ExplicitRows(fixes, objs, additional_fixes, i + 1, next))

Dimensionality(fixes, objs) == 4 + CountAdditionalFixes(objs, 1) + Len(fixes)

NumColumns(objs) == 4 * Len(objs)

AssembleSystem(fixes, objs) ==
  Bind(MasterRows(Dimensionality(fixes, objs), NumColumns(objs)), LAMBDA pinned :
    Bind(ImplicitRows(objs, 1, 0, pinned), LAMBDA implicit :
      ExplicitRows(fixes, objs, CountAdditionalFixes(objs, 1), 1, implicit)))

\* The rectangle made from the four unknowns of block i (counted from 0).
BlockLocation(canvas_positions, i) ==
  CanvasLocation(Truncate(canvas_positions[4 * i + 1]),
                 Truncate(canvas_positions[4 * i + 2]),
                 Truncate(canvas_positions[4 * i + 3]),
                 Truncate(canvas_positions[4 * i + 4]))

\* map[key] = value.
Store(map, key, value) ==
  IF key \in DOMAIN map THEN [map EXCEPT ![key] = value] ELSE map @@ (key :> value)

\* canvas_locations_[canvases_[i].get()] = canvas_location for every block;
\* keys[i + 1] is what canvases_[i].get() gave.
RECURSIVE AssignLocations(_, _, _, _)
AssignLocations(canvas_positions, keys, i, locations) ==
  IF i > Len(keys) THEN locations
  ELSE Bind(Store(locations, keys[i], BlockLocation(canvas_positions, i - 1)),
            LAMBDA stored : AssignLocations(canvas_positions, keys, i + 1, stored))

\* canvases_[i] for i past the end of canvases_ reads outside the vector: the
\* pointer read is the address of some canvas or of no canvas at all.
GarbageReads(canvases, objs) ==
  [(Len(canvases) + 1)..Len(objs) -> Canvases \cup {JunkPtr}]

\* A fix names a locatable that is not registered: GetIndex gives the size of
\* the container and the row is written past the last column of the matrix.
WritesOutsideMatrix(fixes, objs) ==
  \E i \in 1..Len(fixes) : \E loc \in FixOperands(fixes[i]) : ~Contains(objs, loc)

\* CalculateCanvasLocations without its closing check.
MasterPositionUnchecked(locations) == TRUE

\* The closing GEMINI_ASSERT of CalculateCanvasLocations.
MasterPositionedCorrectly(locations) ==
  locations[master_canvas_] = CanvasLocation(0, 0, width_, height_)

Outcome(thrown, crashed, locations, delivered) ==
  [thrown |-> thrown, crashed |-> crashed, locations |-> locations,
   located |-> delivered]

\* Every way the call can end once the system is solved: one outcome for each
\* value the reads past the end of canvases_ can give, and the abort of a
\* build that detects an access out of bounds.
SolvedOutcomes(canvas_positions, pinned) ==
  LET delivered ==
        [loc \in {locatables_[i] : i \in 1..Len(locatables_)} |->
           BlockLocation(canvas_positions, GetIndex(locatables_, loc))]
          @@ located
      solved ==
        {Bind(AssignLocations(
                canvas_positions,
                Tabulate([i \in 1..Len(locatables_) |->
                            IF i <= Len(canvases_) THEN canvases_[i]
                            ELSE garbage[i]]),
                1, pinned),
              LAMBDA locations :
                Outcome(IF MasterPositionedCorrectly(locations) THEN NoError
                        ELSE "master canvas positioned incorrectly",
                        FALSE, locations, delivered))
         : garbage \in GarbageReads(canvases_, locatables_)}
      aborted ==
        IF WritesOutsideMatrix(fixes_, locatables_)
           \/ Len(locatables_) > Len(canvases_)
        THEN {Outcome(NoError, TRUE, canvas_locations_, located)}
        ELSE {}
  IN  solved \cup aborted

\* Every way one call of CalculateCanvasLocations can end in the current state.
CalculateCanvasLocationsOutcomes ==
  Bind(Store(canvas_locations_, master_canvas_,
             CanvasLocation(0, 0, width_, height_)),
       LAMBDA pinned :
         IF fixes_ = <<>>
         THEN IF Len(canvases_) = 1
              THEN {Outcome(NoError, FALSE, pinned, located)}
              ELSE {Outcome("no relationships, but there are multiple canvases",
                            FALSE, pinned, located)}
         ELSE Bind(AssembleSystem(fixes_, locatables_), LAMBDA sys :
                Bind(FullPivLuSolve(sys.relationships, sys.constants),
                     LAMBDA canvas_positions :
                       SolvedOutcomes(canvas_positions, pinned))))

CalculateCanvasLocations ==
  /\ alive
  /\ \E out \in CalculateCanvasLocationsOutcomes :
       /\ alive' = ~out.crashed
       /\ canvas_locations_' = out.locations
       /\ located' = out.located
       /\ last' = IF out.crashed THEN last
                  ELSE Call("CalculateCanvasLocations", out.thrown, <<>>, TRUE)
  /\ UNCHANGED <<width_, height_, canvases_, locatables_, fixes_,
                 needs_calculate_, parent_, paint_background_,
                 child_canvases_, shapes_,
                 coordinate_system_>>

(***************************************************************************)
(* The diagnostics pass of CalculateCanvasLocations: what it prints about  *)
(* unknowns no row constrains.  The code prints the words alone; the model *)
(* keeps with each word the index i of the loop that printed it.           *)
(***************************************************************************)
\* relationships * x.
Times(relationships, x) ==
  Tabulate([i \in 1..NumRows(relationships) |->
              DotTail(relationships[i], x, 1, Len(x))])

\* abs_sum(relationships * x - constants).
RECURSIVE AbsSum(_, _, _)
AbsSum(product, constants, i) ==
  IF i > Len(product) THEN R0
  ELSE RAdd(RAbs(RSub(product[i], constants[i])),
            AbsSum(product, constants, i + 1))

\* test_constraint(column, 0) += 0.1, columns counted from 0.
Nudged(x, column) == [x EXCEPT ![column + 1] = RAdd(@, <<1, 10>>)]

\* residual < 1.e-6 for the vector test_constraint.
Unnoticed(sys, test_constraint) ==
  Bind(Times(sys.relationships, test_constraint), LAMBDA product :
    RLess(RDiv(AbsSum(product, sys.constants, 1), <<1, 10>>), <<1, 1000000>>))

\* The four checks of the loop for index i, in order: the word printed and
\* the vector the residual is taken for.  The second check is made with the
\* first nudge still in place and the fourth with the third.
UnconstrainedChecks(canvas_positions, i) ==
  << <<"left", Nudged(canvas_positions, 4 * i)>>,
     <<"right", Nudged(Nudged(canvas_positions, 4 * i), 4 * i + 1)>>,
     <<"bottom", Nudged(canvas_positions, 4 * i + 2)>>,
     <<"height", Nudged(Nudged(canvas_positions, 4 * i + 2), 4 * i + 3)>> >>

\* What the loop over i < canvases_.size() prints: <<i, word>> in order.
Unconstrained(sys, canvas_positions) ==
  LET checks == Tabulate([n \in 1..(4 * Len(canvases_)) |->
                   <<(n - 1) \div 4,
                     UnconstrainedChecks(canvas_positions,
                                         (n - 1) \div 4)[((n - 1) % 4) + 1]>>])
      printed == SelectSeq(checks, LAMBDA c : Unnoticed(sys, c[2][2]))
  IN  Tabulate([n \in 1..Len(printed) |-> <<printed[n][1], printed[n][2][1]>>])

\* What a call of CalculateCanvasLocations prints about unconstrained
\* unknowns in the current state: nothing when there are no fixes.
UnconstrainedPrinted ==
  IF fixes_ = <<>> THEN <<>>
  ELSE Bind(AssembleSystem(fixes_, locatables_), LAMBDA sys :
         Bind(FullPivLuSolve(sys.relationships, sys.constants),
              LAMBDA canvas_positions : Unconstrained(sys, canvas_positions)))

\* CalculateCanvasLocations, recording what it printed.
CalculateCanvasLocationsPrinting ==
  /\ alive
  /\ \E out \in CalculateCanvasLocationsOutcomes :
       /\ alive' = ~out.crashed
       /\ canvas_locations_' = out.locations
       /\ located' = out.located
       /\ last' = IF out.crashed THEN last
                  ELSE Call("CalculateCanvasLocations", out.thrown,
                            UnconstrainedPrinted, TRUE)
  /\ UNCHANGED <<width_, height_, canvases_, locatables_, fixes_,
                 needs_calculate_, parent_, paint_background_,
                 child_canvases_, shapes_,
                 coordinate_system_>>

(***************************************************************************)
(* Image::Impl::CalculateCanvasCoordinates: getMinMaxCoordinates and       *)
(* describeCoordinates for every canvas.                                   *)
(***************************************************************************)
CoordinateBoundingBox(l, r, b, t) == [left |-> l, right |-> r, bottom |-> b, top |-> t]

\* default_coordinate_epsilon = 0.0001
default_coordinate_epsilon == <<1, 10000>>

\* if (!isnan(v) && (isnan(m) || v < m)) m = v
FoldMin(m, v) == IF ~IsNaN(v) /\ (IsNaN(m) \/ RLess(v, m)) THEN v ELSE m

\* if (!isnan(v) && (isnan(m) || m < v)) m = v
FoldMax(m, v) == IF ~IsNaN(v) /\ (IsNaN(m) \/ RLess(m, v)) THEN v ELSE m

\* <<min x, max x, min y, max y>> over shapes[i..], starting from acc.
RECURSIVE ScanShapes(_, _, _)
ScanShapes(shapes, i, acc) ==
  IF i > Len(shapes) THEN acc
  ELSE LET box == shapes[i]
       IN  ScanShapes(shapes, i + 1,
                      <<FoldMin(acc[1], box.left), FoldMax(acc[2], box.right),
                        FoldMin(acc[3], box.bottom), FoldMax(acc[4], box.top)>>)

getMinMaxCoordinates(shapes) == ScanShapes(shapes, 1, <<NaN, NaN, NaN, NaN>>)

\* A bound of the description inferred whether it is set or not.
DescribeBoundAnew(current, min_coordinate, max_coordinate, extreme, sign) ==
  IF IsNaN(min_coordinate)
  THEN RMul(RInt(sign), default_coordinate_epsilon)
  ELSE IF min_coordinate = max_coordinate
       THEN RAdd(min_coordinate, RMul(RInt(sign), default_coordinate_epsilon))
       ELSE extreme

\* One bound of the description: kept when it is set, otherwise inferred.
\* sign is -1 for the low side and +1 for the high side.
DescribeBound(current, min_coordinate, max_coordinate, extreme, sign) ==
  IF ~IsNaN(current) THEN current
  ELSE IF IsNaN(min_coordinate)
       THEN RMul(RInt(sign), default_coordinate_epsilon)
       ELSE IF min_coordinate = max_coordinate
            THEN RAdd(min_coordinate, RMul(RInt(sign), default_coordinate_epsilon))
            ELSE extreme

describeCoordinates(description, min_max_coords) ==
  LET min_coordinate_x == min_max_coords[1]
      max_coordinate_x == min_max_coords[2]
      min_coordinate_y == min_max_coords[3]
      max_coordinate_y == min_max_coords[4]
  IN  IF ~IsNaN(min_coordinate_x) \/ ~IsNaN(min_coordinate_y)
      THEN [has_coordinates |-> TRUE,
            left |-> DescribeBound(description.left, min_coordinate_x,
                                   max_coordinate_x, min_coordinate_x, -1),
            right |-> DescribeBound(description.right, min_coordinate_x,
                                    max_coordinate_x, max_coordinate_x, 1),
            bottom |-> DescribeBound(description.bottom, min_coordinate_y,
                                     max_coordinate_y, min_coordinate_y, -1),
            top |-> DescribeBound(description.top, min_coordinate_y,
                                  max_coordinate_y, max_coordinate_y, 1)]
      ELSE description

\* coordinate_system_ of every canvas after CalculateCanvasCoordinates.
CalculatedCoordinates ==
  [canvas \in DOMAIN coordinate_system_ |->
     describeCoordinates(coordinate_system_[canvas],
                         getMinMaxCoordinates(shapes_[canvas]))]

CalculateCanvasCoordinates ==
  /\ alive
  /\ coordinate_system_' = CalculatedCoordinates
  /\ last' = Call("CalculateCanvasCoordinates", NoError, <<>>, FALSE)
  /\ UNCHANGED <<width_, height_, canvases_, locatables_, fixes_,
                 canvas_locations_, needs_calculate_, parent_, paint_background_,
                 child_canvases_,
                 shapes_, located, alive>>

(***************************************************************************)
(* Image::Impl::CalculateImage and Image::Impl::ToBitmap.                  *)
(***************************************************************************)
\* The body of CalculateImage, run on behalf of the call named op.
RunCalculateImage(op) ==
  /\ coordinate_system_' = CalculatedCoordinates
  /\ \E out \in CalculateCanvasLocationsOutcomes :
       /\ alive' = ~out.crashed
       /\ canvas_locations_' = out.locations
       /\ located' = out.located
       /\ needs_calculate_' =
            IF out.crashed \/ out.thrown # NoError THEN needs_calculate_ ELSE FALSE
       /\ last' = IF out.crashed THEN last ELSE Call(op, out.thrown, <<>>, TRUE)

CalculateImage ==
  /\ alive
  /\ RunCalculateImage("CalculateImage")
  /\ UNCHANGED <<width_, height_, canvases_, locatables_, fixes_, parent_,
                 paint_background_,
                 child_canvases_, shapes_>>

\* Bitmap output(width_, height_) is a local of the call: painting it changes
\* no field of the image.
ToBitmap ==
  /\ alive
  /\ IF needs_calculate_
     THEN RunCalculateImage("ToBitmap")
     ELSE /\ last' = Call("ToBitmap", NoError, <<>>, FALSE)
          /\ UNCHANGED <<coordinate_system_, canvas_locations_, located,
                         needs_calculate_, alive>>
  /\ UNCHANGED <<width_, height_, canvases_, locatables_, fixes_, parent_,
                 paint_background_,
                 child_canvases_, shapes_>>

(***************************************************************************)
(* The calls the model makes on an image.                                  *)
(***************************************************************************)
\* A pointer the caller can hold: a canvas that was created, or a locatable
\* of its own.
Exists(loc) == loc \in Canvases \cup ExtLocatables

RelationArgs ==
  {<<1, "Left", 2, "Left", RInt(10)>>,
   <<1, "Left", 101, "Left", RInt(10)>>,
   <<1, "Bottom", 101, "Bottom", RInt(10)>>}

ScaleArgs == {<<2, "Right", 1, "X", <<1, 2>>>>}

DimensionsArgs == {<<1, "X", RInt(50)>>}

RelativeSizeArgs == {<<2, "Y", 1, "Y", <<1, 2>>>>}

AddFixArgs == {FixDimensions(2, "Y", RInt(40))}

\* The fixes of the inset scenario: the child named first, the master second.
ScenarioArgs ==
  {<<2, "Left", 1, "Left", RInt(10)>>,
   <<2, "Right", 1, "Right", RInt(-10)>>,
   <<2, "Top", 1, "Top", RInt(-10)>>,
   <<2, "Bottom", 1, "Bottom", RInt(10)>>}

BoundingBoxes ==
  {CoordinateBoundingBox(NaN, NaN, NaN, NaN),
   CoordinateBoundingBox(RInt(0), RInt(10), RInt(5), RInt(5))}

(***************************************************************************)
(* The raster: Bitmap::Impl and EasyBMPImpl.                               *)
(***************************************************************************)
VARIABLES
  impl_width_,      \* Bitmap::Impl::width_
  impl_height_,     \* Bitmap::Impl::height_
  pxlow_, pxhi_,    \* the permitted region, [pxlow_, pxhi_) x [pylow_, pyhi_)
  pylow_, pyhi_,
  overwrite_type_,  \* Bitmap::Impl::overwrite_type_
  zarray_,          \* the storage of EasyBMPImpl::zarray_, indexed from 0
  zsize,            \* zarray_.size(); the storage may be longer (capacity)
  bitmap_,          \* EasyBMPImpl::bitmap_: its size and the colour of each pixel
  raster_last,      \* the last call made on the raster
  raster_alive,     \* FALSE once the process has been aborted
  written           \* history: the greatest depth SetPixel was given for each
                    \* pixel of the permitted region since the raster was sized

rasterVars ==
  <<impl_width_, impl_height_, pxlow_, pxhi_, pylow_, pyhi_, overwrite_type_,
    zarray_, zsize, bitmap_, raster_last, raster_alive, written>>

RasterSizes == {<<1, 2>>}

Colours == {"Red", "Blue"}

DepthValues == {RInt(-1), RInt(1)}

ZOverwriteType == {"Greater", "GreaterOrEqual"}

\* BMP::SetSize: every pixel white.
BMP(width, height) ==
  [width |-> width, height |-> height,
   pixels |-> [p \in (0..(width - 1)) \X (0..(height - 1)) |-> "White"]]

Capacity == Cardinality(DOMAIN zarray_)

RasterCall(op, x, y, color, z) ==
  [op |-> op, x |-> x, y |-> y, color |-> color, z |-> z]

\* Bitmap(): Bitmap::Impl() and EasyBMPImpl() leave every field at its default;
\* a default BMP is one white pixel.
InitBitmapDefault ==
  /\ impl_width_ = 0 /\ impl_height_ = 0
  /\ pxlow_ = 0 /\ pxhi_ = 0 /\ pylow_ = 0 /\ pyhi_ = 0
  /\ overwrite_type_ = "GreaterOrEqual"
  /\ zarray_ = << >>
  /\ zsize = 0
  /\ bitmap_ = BMP(1, 1)
  /\ raster_last = RasterCall("Bitmap", 0, 0, "White", NaN)
  /\ raster_alive = TRUE
  /\ written = << >>

\* Bitmap(width, height): EasyBMPImpl(width, height) reserves the depth storage
\* without sizing it, so std::fill runs over an empty range and the storage
\* holds whatever the allocation held.
InitBitmapSized ==
  \E size \in RasterSizes :
    /\ impl_width_ = size[1] /\ impl_height_ = size[2]
    /\ pxlow_ = 0 /\ pxhi_ = size[1] /\ pylow_ = 0 /\ pyhi_ = size[2]
    /\ overwrite_type_ = "GreaterOrEqual"
    /\ zarray_ \in [0..(size[1] * size[2] - 1) -> DepthValues \cup {NaN}]
    /\ zsize = 0
    /\ bitmap_ = BMP(size[1], size[2])
    /\ raster_last = RasterCall("Bitmap", 0, 0, "White", NaN)
    /\ raster_alive = TRUE
    /\ written = << >>

InitBitmap == InitBitmapDefault \/ InitBitmapSized

Max(a, b) == IF a < b THEN b ELSE a

Min(a, b) == IF a < b THEN a ELSE b

\* Bitmap::Impl::SetSize with EasyBMPImpl::setSize.
SetSize(width, height) ==
  /\ raster_alive
  /\ pxlow_' = 0 /\ pxhi_' = width /\ pylow_' = 0 /\ pyhi_' = height
  /\ bitmap_' = BMP(width, height)
  /\ zsize' = width * height
  /\ zarray_' = [i \in 0..(Max(Capacity, width * height) - 1) |->
                   IF i < width * height THEN NaN ELSE zarray_[i]]
  /\ raster_last' = RasterCall("SetSize", width, height, "White", NaN)
  /\ written' = << >>
  /\ UNCHANGED <<impl_width_, impl_height_, overwrite_type_, raster_alive>>

\* Bitmap::Impl::SetPermittedRegion.
SetPermittedRegion(xlow, xhi, ylow, yhi) ==
  /\ raster_alive
  /\ pxlow_' = Max(0, xlow)
  /\ pxhi_' = Min(impl_width_, xhi)
  /\ pylow_' = Min(0, ylow)
  /\ pyhi_' = Min(impl_height_, yhi)
  /\ raster_last' = RasterCall("SetPermittedRegion", xlow, ylow, "White", NaN)
  /\ UNCHANGED <<impl_width_, impl_height_, overwrite_type_, zarray_, zsize,
                 bitmap_, raster_alive, written>>

\* overwrite_type_ is a protected field: an implementation derived from
\* Bitmap::Impl chooses the tie-break policy by assigning it.
SetOverwriteType(type) ==
  /\ raster_alive
  /\ overwrite_type_' = type
  /\ raster_last' = RasterCall("SetOverwriteType", 0, 0, "White", NaN)
  /\ UNCHANGED <<impl_width_, impl_height_, pxlow_, pxhi_, pylow_, pyhi_,
                 zarray_, zsize, bitmap_, raster_alive, written>>

\* The test of Bitmap::Impl::SetPixel without its upper bounds.
InPermittedRegionNoUpper(x, y) == pxlow_ <= x /\ pylow_ <= y

\* The test of Bitmap::Impl::SetPixel.
InPermittedRegion(x, y) == pxlow_ <= x /\ x < pxhi_ /\ pylow_ <= y /\ y < pyhi_

\* The test of setPixel without its tie-break clause.
OverwritesStrictly(zvalue, z, type) == IsNaN(zvalue) \/ RLess(zvalue, z)

\* The test of EasyBMPImpl::setPixel.
Overwrites(zvalue, z, type) ==
  IsNaN(zvalue) \/ RLess(zvalue, z) \/ (zvalue = z /\ type = "GreaterOrEqual")

\* The index of the depth entry setPixel consults for (x, y).
DepthIndex(x, y) == y * impl_width_ + x

\* The pixel of bitmap_ setPixel writes for (x, y).
WrittenPixel(x, y) == <<x, impl_height_ - y - 1>>

\* What zarray_[index] can read: an element, or, outside the elements,
\* whatever the memory there holds.
DepthReads(index) ==
  IF index \in DOMAIN zarray_ THEN {zarray_[index]} ELSE DepthValues \cup {NaN}

RasterOutcome(crashed, depths, image) ==
  [crashed |-> crashed, zarray |-> depths, bitmap |-> image]

\* Every way EasyBMPImpl::setPixel(x, y, color, z) can end.  An access outside
\* the elements of zarray_ or outside the pixels of bitmap_ is not checked by
\* the code: it either aborts the process or goes on with the memory it hit.
setPixelOutcomes(x, y, color, z) ==
  LET index == DepthIndex(x, y)
      target == WrittenPixel(x, y)
      unchecked == ~(0 <= index /\ index < zsize)
      painted == IF target \in DOMAIN bitmap_.pixels
                 THEN [bitmap_ EXCEPT !.pixels[target] = color]
                 ELSE bitmap_
      stored == IF index \in DOMAIN zarray_
                THEN [zarray_ EXCEPT ![index] = z]
                ELSE zarray_
  IN  {IF Overwrites(zvalue, z, overwrite_type_)
       THEN RasterOutcome(FALSE, stored, painted)
       ELSE RasterOutcome(FALSE, zarray_, bitmap_)
       : zvalue \in DepthReads(index)}
      \cup (IF unchecked THEN {RasterOutcome(TRUE, zarray_, bitmap_)} ELSE {})
      \cup (IF \E zvalue \in DepthReads(index) :
                 Overwrites(zvalue, z, overwrite_type_)
                 /\ target \notin DOMAIN bitmap_.pixels
            THEN {RasterOutcome(TRUE, zarray_, bitmap_)} ELSE {})

\* A history of greatest depths after a write of depth z to the pixel (x, y).
Deepest(history, x, y, z) ==
  IF <<x, y>> \in DOMAIN history
  THEN [history EXCEPT ![<<x, y>>] = IF RLess(@, z) THEN z ELSE @]
  ELSE history @@ (<<x, y>> :> z)

\* The history after a write of depth z to the pixel (x, y).
Written(x, y, z) == Deepest(written, x, y, z)

\* Bitmap::Impl::SetPixel.
SetPixel(x, y, color, z) ==
  /\ raster_alive
  /\ raster_last' = RasterCall("SetPixel", x, y, color, z)
  /\ IF InPermittedRegion(x, y)
     THEN \E out \in setPixelOutcomes(x, y, color, z) :
            /\ raster_alive' = ~out.crashed
            /\ zarray_' = out.zarray
            /\ bitmap_' = out.bitmap
            /\ written' = IF out.crashed THEN written ELSE Written(x, y, z)
     ELSE UNCHANGED <<zarray_, bitmap_, raster_alive, written>>
  /\ UNCHANGED <<impl_width_, impl_height_, pxlow_, pxhi_, pylow_, pyhi_,
                 overwrite_type_, zsize>>

\* EasyBMPImpl::GetPixel.
GetPixel(x, y) ==
  IF 0 <= x /\ x < bitmap_.width /\ 0 <= y /\ y < bitmap_.height
  THEN bitmap_.pixels[<<x, y>>]
  ELSE "Black"

PixelXs == 0..1

PixelYs == -1..1

Regions == {<<0, 1, 0, 2>>, <<0, 1, 1, 2>>, <<0, 1, 0, 1>>, <<-1, 2, -1, 3>>}

(***************************************************************************)
(* The colour cycles of plot::Figure (plot/Plot.h, plot/Plot.cpp) and of   *)
(* plot::Manager.  The source of Manager is not part of the repository's   *)
(* sources: its operations are modelled from tests/UT_Manager.cpp, which   *)
(* calls them and states what they return.                                 *)
(***************************************************************************)
VARIABLES
  color_palette_,          \* Figure: the palette, a sequence of colours
  plot_palette_index_,     \* Figure: the index Plot draws its colour at
  scatter_palette_index_,  \* Figure: the index Scatter draws its colour at
  error_palette_index_,    \* Figure: the index PlotErrorbars draws its colour at
  drawn,                   \* history: what the last call drew or returned
  default_palette,         \* Manager: the palette of a type with none of its own
  palettes,                \* Manager: render type -> its palette, << >> for none
  cycles                   \* Manager: render type -> index of its next colour

figureVars ==
  <<color_palette_, plot_palette_index_, scatter_palette_index_,
    error_palette_index_>>

managerVars == <<default_palette, palettes, cycles>>

paletteVars == <<figureVars, drawn, managerVars>>

\* color::Black, color::Red, color::Green, color::White.
Black == <<0, 0, 0, 255>>

Red == <<255, 0, 0, 255>>

Green == <<0, 255, 0, 255>>

White == <<255, 255, 255, 255>>

\* DefaultColorPalette().  The literals 051 of the source are octal.
DefaultColorPalette ==
  << <<204, 0, 0, 255>>, <<255, 255, 0, 255>>, <<0, 204, 102, 255>>,
     <<41, 251, 41, 255>>, <<0, 255, 255, 255>>, <<41, 153, 255, 255>>,
     <<102, 102, 255, 255>>, <<204, 0, 204, 255>> >>

\* ColorPaletteHLS().
ColorPaletteHLS ==
  << <<204, 102, 92, 255>>, <<215, 195, 104, 255>>, <<161, 217, 106, 255>>,
     <<125, 216, 137, 255>>, <<122, 208, 217, 255>>, <<92, 111, 212, 255>>,
     <<152, 91, 212, 255>>, <<203, 95, 174, 255>> >>

\* What a call drew: the render type it was made for ("" for a call on a
\* figure), the colour of its shapes, how many shapes it attached to the
\* plotting canvas and whether it added an entry to the legend.
Drawing(op, type, color, shapes, legend) ==
  [op |-> op, type |-> type, color |-> color, shapes |-> shapes,
   legend |-> legend]

\* No colour: the call drew nothing.
NoColor == << >>

\* The element of a vector at a C++ index.
At(vector, index) == vector[index + 1]

\* Figure::updateColorPalette stepping back to the second colour.
updateColorPaletteToSecond(index) ==
  IF Len(color_palette_) <= index + 1 THEN 1 ELSE index + 1

\* Figure::updateColorPalette: the value it leaves in `index`.
updateColorPalette(index) ==
  IF Len(color_palette_) <= index + 1 THEN 0 ELSE index + 1

\* Figure::Figure.
Figure ==
  /\ color_palette_ = ColorPaletteHLS
  /\ plot_palette_index_ = 0
  /\ scatter_palette_index_ = 0
  /\ error_palette_index_ = 0
  /\ drawn = Drawing("Figure", "", NoColor, 0, FALSE)

\* Figure::Plot(x, y, label) with `points` values in x and in y.
Plot(points, label) ==
  /\ IF points = 0
       THEN /\ drawn' = Drawing("Plot", "", NoColor, 0, FALSE)
            /\ UNCHANGED plot_palette_index_
       ELSE /\ drawn' = Drawing("Plot", "", At(color_palette_, plot_palette_index_),
                                points + (points - 1), label # "")
            /\ plot_palette_index_' = updateColorPalette(plot_palette_index_)
  /\ UNCHANGED <<color_palette_, scatter_palette_index_, error_palette_index_>>

\* Figure::Scatter(x, y, options) with `points` values in x and in y;
\* `color` is options.color, NoColor when it has no value.
Scatter(points, color, label) ==
  /\ IF points = 0
       THEN /\ drawn' = Drawing("Scatter", "", NoColor, 0, FALSE)
            /\ UNCHANGED scatter_palette_index_
       ELSE /\ drawn' = Drawing("Scatter", "",
                                IF color # NoColor THEN color
                                ELSE At(color_palette_, scatter_palette_index_),
                                points, label # "")
            /\ scatter_palette_index_' =
                 IF color = NoColor
                 THEN updateColorPalette(scatter_palette_index_)
                 ELSE scatter_palette_index_
  /\ UNCHANGED <<color_palette_, plot_palette_index_, error_palette_index_>>

\* Figure::PlotErrorbars(x, y, err, label) with `points` values in each.
PlotErrorbars(points, label) ==
  /\ IF points = 0
       THEN /\ drawn' = Drawing("PlotErrorbars", "", NoColor, 0, FALSE)
            /\ UNCHANGED error_palette_index_
       ELSE /\ drawn' = Drawing("PlotErrorbars", "",
                                At(color_palette_, error_palette_index_),
                                5 * points, label # "")
            /\ error_palette_index_' = updateColorPalette(error_palette_index_)
  /\ UNCHANGED <<color_palette_, plot_palette_index_, scatter_palette_index_>>

\* The render types colours are requested for.
RenderTypes == {"LinePlotRender", "ScatterPlotRender"}

\* Manager: the palette a type draws from.
PaletteOf(type) ==
  IF palettes[type] # << >> THEN palettes[type] ELSE default_palette

\* Manager::Manager.
Manager ==
  /\ default_palette = DefaultColorPalette
  /\ palettes = [type \in RenderTypes |-> << >>]
  /\ cycles = [type \in RenderTypes |-> 0]

\* Manager::SetDefaultColorPalette(colors), called as the tests call it:
\* before a colour is requested.
SetDefaultColorPalette(colors) ==
  /\ \A type \in RenderTypes : cycles[type] = 0
  /\ default_palette' = colors
  /\ drawn' = Drawing("SetDefaultColorPalette", "", NoColor, 0, FALSE)
  /\ UNCHANGED <<palettes, cycles>>

\* Manager::SetColorPalette<type>(colors), called as the tests call it:
\* before a colour of the type is requested.
SetColorPalette(type, colors) ==
  /\ cycles[type] = 0
  /\ palettes' = [palettes EXCEPT ![type] = colors]
  /\ drawn' = Drawing("SetColorPalette", "", NoColor, 0, FALSE)
  /\ UNCHANGED <<default_palette, cycles>>

\* The cycle of a type after a request.
NextCycle(type) == (cycles[type] + 1) % Len(PaletteOf(type))

\* Manager::RequestColor<type>().
RequestColor(type) ==
  /\ drawn' = Drawing("RequestColor", type, At(PaletteOf(type), cycles[type]),
                      0, FALSE)
  /\ cycles' = [cycles EXCEPT ![type] = NextCycle(type)]
  /\ UNCHANGED <<default_palette, palettes>>

\* Manager::ResetColorCycle<type>().
ResetColorCycle(type) ==
  /\ drawn' = Drawing("ResetColorCycle", type, NoColor, 0, FALSE)
  /\ cycles' = [cycles EXCEPT ![type] = 0]
  /\ UNCHANGED <<default_palette, palettes>>

\* The operations of a manager.
ManagerOps ==
  {"SetDefaultColorPalette", "SetColorPalette", "RequestColor", "ResetColorCycle"}

\* The palettes the tests set.
TestPalettes == {<<Black, Red, Green>>, <<White, Black>>}

\* The lengths of the vectors plotted and the labels they are plotted with.
PlotPoints == {0, 2}

PlotLabels == {"", "data"}

InitPalette == Figure /\ Manager

(***************************************************************************)
(* Canvas::writeOnBitmap: painting the canvases on the bitmap ToBitmap     *)
(* returns.  The bitmap under construction is a record; an access the code *)
(* does not check can read any value, so painting yields a set of bitmaps. *)
(***************************************************************************)
VARIABLE
  painted   \* history: what the last ToBitmap did on its bitmap, in order

\* background_color_ = color::White
background_color_ == "White"

\* SetPixel(x, y, color, z = 0): the depth paintBackground writes at.
BackgroundDepth == RInt(0)

\* Shape::zorder_ = 1.
zorder_ == RInt(1)

\* The colour of the shapes the model draws.
ShapeColour == "Red"

Event(op, canvas, shape, pixels) ==
  [op |-> op, canvas |-> canvas, shape |-> shape, pixels |-> pixels]

\* Bitmap output(width, height): EasyBMPImpl(width, height), whose reserved
\* depth storage holds `storage`.
Output(width, height, storage) ==
  [width |-> width, height |-> height,
   pxlow |-> 0, pxhi |-> width, pylow |-> 0, pyhi |-> height,
   overwrite_type |-> "GreaterOrEqual",
   zarray |-> storage, zsize |-> 0, bitmap |-> BMP(width, height),
   unchecked |-> FALSE, written |-> << >>, hits |-> {}, log |-> << >>]

\* Bitmap::Impl::SetPermittedRegion on the bitmap under construction.
PermitRegion(output, xlow, xhi, ylow, yhi) ==
  [output EXCEPT !.pxlow = Max(0, xlow),
                 !.pxhi = Min(output.width, xhi),
                 !.pylow = Min(0, ylow),
                 !.pyhi = Min(output.height, yhi)]

\* Bitmap::SetPixel on the bitmap under construction: every bitmap the call
\* can leave.  unchecked records an access outside the elements of zarray_ or
\* outside the pixels of bitmap_; hits collects the pixels written.
PaintPixel(output, x, y, color, z) ==
  IF ~(output.pxlow <= x /\ x < output.pxhi /\ output.pylow <= y /\ y < output.pyhi)
  THEN {output}
  ELSE LET index == y * output.width + x
           target == <<x, output.height - y - 1>>
           reads == IF index \in DOMAIN output.zarray
                    THEN {output.zarray[index]}
                    ELSE DepthValues \cup {NaN}
           admitted ==
             [output EXCEPT
                !.written = Deepest(@, x, y, z),
                !.unchecked = @ \/ ~(0 <= index /\ index < output.zsize)]
           accepted ==
             [admitted EXCEPT
                !.zarray = IF index \in DOMAIN @ THEN [@ EXCEPT ![index] = z] ELSE @,
                !.bitmap.pixels =
                   IF target \in DOMAIN @ THEN [@ EXCEPT ![target] = color] ELSE @,
                !.unchecked = @ \/ target \notin DOMAIN output.bitmap.pixels,
                !.hits = @ \cup {<<x, y>>}]
       IN  {IF Overwrites(zvalue, z, output.overwrite_type) THEN accepted ELSE admitted
            : zvalue \in reads}

\* SetPixel(pixels[i], color, z), SetPixel(pixels[i + 1], color, z), ...
RECURSIVE PaintPixels(_, _, _, _, _)
PaintPixels(outputs, pixels, i, color, z) ==
  IF i > Len(pixels) THEN outputs
  ELSE PaintPixels(
         UNION {PaintPixel(output, pixels[i][1], pixels[i][2], color, z)
                : output \in outputs},
         pixels, i + 1, color, z)

\* The pixels of [xlow, xhi) x [ylow, yhi) in the order of the loops
\* for x { for y { ... } }.
LoopPixels(xlow, xhi, ylow, yhi) ==
  IF xhi <= xlow \/ yhi <= ylow THEN << >>
  ELSE Tabulate([k \in 1..((xhi - xlow) * (yhi - ylow)) |->
                   <<xlow + ((k - 1) \div (yhi - ylow)),
                     ylow + ((k - 1) % (yhi - ylow))>>])

\* The call ends: the pixels it wrote go to the history.
Logged(outputs, op, canvas, shape) ==
  {[output EXCEPT !.log = Append(@, Event(op, canvas, shape, output.hits)),
                  !.hits = {}]
   : output \in outputs}

\* Canvas::paintBackground.
paintBackground(canvas, locations, outputs) ==
  LET location == locations[canvas]
  IN  Logged(PaintPixels(outputs,
                         LoopPixels(location.left, location.right,
                                    location.bottom, location.top),
                         1, background_color_, BackgroundDepth),
             "paintBackground", canvas, 0)

\* Shape::DrawOnBitmap of a shape that covers the whole bitmap and its
\* surroundings (a disc wider than the image): SetPixel for every pixel from
\* one pixel outside the bitmap on each side.
DrawOnBitmap(canvas, shape, outputs) ==
  Logged(UNION {PaintPixels({output},
                            LoopPixels(-1, output.width + 1, -1, output.height + 1),
                            1, ShapeColour, zorder_)
                : output \in outputs},
         "DrawOnBitmap", canvas, shape)

\* for (const auto& shape : shapes_) shape->DrawOnBitmap(image, this)
RECURSIVE DrawShapes(_, _, _)
DrawShapes(canvas, i, outputs) ==
  IF i > Len(shapes_[canvas]) THEN outputs
  ELSE DrawShapes(canvas, i + 1, DrawOnBitmap(canvas, i, outputs))

\* The order in which writeOnBitmap visits the children of a canvas.
ChildrenReversed(canvas) ==
  [i \in 1..Len(child_canvases_[canvas]) |->
     child_canvases_[canvas][Len(child_canvases_[canvas]) + 1 - i]]

Children(canvas) == child_canvases_[canvas]

RECURSIVE writeOnBitmap(_, _, _)
RECURSIVE writeChildren(_, _, _, _)
\* for (const auto& child : child_canvases_) child->writeOnBitmap(image)
writeChildren(canvas, i, locations, outputs) ==
  IF i > Len(Children(canvas)) THEN outputs
  ELSE writeChildren(canvas, i + 1, locations,
                     writeOnBitmap(Children(canvas)[i], locations, outputs))

\* Canvas::writeOnBitmap, for the canvas locations the image holds.
writeOnBitmap(canvas, locations, outputs) ==
  LET location == locations[canvas]
      permitted ==
        Logged({PermitRegion(output, location.left, location.right,
                             location.bottom, location.top) : output \in outputs},
               "SetPermittedRegion", canvas, 0)
      background ==
        IF paint_background_[canvas]
        THEN paintBackground(canvas, locations, permitted)
        ELSE permitted
  IN  writeChildren(canvas, 1, locations, DrawShapes(canvas, 1, background))

\* Image::Impl::ToBitmap with the bitmap it returns.  The bitmap is painted
\* when the calculation, if one was needed, did not throw; the returned bitmap
\* becomes the raster.  Painting reads and writes depth entries the bitmap does
\* not have, which a checked build answers by aborting.
ToBitmapOutput ==
  /\ alive /\ raster_alive
  /\ IF needs_calculate_
     THEN RunCalculateImage("ToBitmap")
     ELSE /\ last' = Call("ToBitmap", NoError, <<>>, FALSE)
          /\ UNCHANGED <<coordinate_system_, canvas_locations_, located,
                         needs_calculate_, alive>>
  /\ UNCHANGED <<width_, height_, canvases_, locatables_, fixes_, parent_,
                 paint_background_, child_canvases_, shapes_>>
  /\ IF alive' /\ last'.thrown = NoError
     THEN \E storage \in [0..(width_ * height_ - 1) -> DepthValues \cup {NaN}] :
            \E output \in writeOnBitmap(master_canvas_, canvas_locations_',
                                        {Output(width_, height_, storage)}) :
              \/ /\ impl_width_' = output.width /\ impl_height_' = output.height
                 /\ pxlow_' = output.pxlow /\ pxhi_' = output.pxhi
                 /\ pylow_' = output.pylow /\ pyhi_' = output.pyhi
                 /\ overwrite_type_' = output.overwrite_type
                 /\ zarray_' = output.zarray /\ zsize' = output.zsize
                 /\ bitmap_' = output.bitmap
                 /\ written' = output.written
                 /\ raster_last' = RasterCall("ToBitmap", 0, 0, "White", NaN)
                 /\ raster_alive' = TRUE
                 /\ painted' = output.log
              \/ /\ output.unchecked
                 /\ raster_alive' = FALSE
                 /\ UNCHANGED <<impl_width_, impl_height_, pxlow_, pxhi_, pylow_,
                                pyhi_, overwrite_type_, zarray_, zsize, bitmap_,
                                written, raster_last, painted>>
     ELSE UNCHANGED <<rasterVars, painted>>

\* The image the model paints, small enough to follow every pixel.
PaintSizes == {<<2, 1>>}

InitPaint ==
  /\ \E size \in PaintSizes : ImageImpl(size[1], size[2])
  /\ InitBitmapDefault
  /\ painted = << >>
  /\ InitPalette

\* The fixes of the painted layout, in the order they are made: the second
\* canvas takes the image but for its last column, the third is the second
\* moved one pixel to the right.
PaintFixes ==
  <<<<1, "Left", 2, "Left", RInt(0)>>,
    <<1, "Bottom", 2, "Bottom", RInt(0)>>,
    <<1, "Right", 2, "Right", RInt(-1)>>,
    <<1, "Top", 2, "Top", RInt(0)>>,
    <<2, "Left", 3, "Left", RInt(1)>>,
    <<2, "Bottom", 3, "Bottom", RInt(0)>>,
    <<2, "Right", 3, "Right", RInt(1)>>,
    <<2, "Top", 3, "Top", RInt(0)>>>>

\* The number of shapes attached to the canvases of the image.
RECURSIVE CountShapes(_)
CountShapes(i) ==
  IF i > Len(canvases_) THEN 0 ELSE Len(shapes_[canvases_[i]]) + CountShapes(i + 1)

NumShapes == CountShapes(1)

\* A shape given in pixels: its bounding box in coordinates is empty.
PaintShapes == {CoordinateBoundingBox(NaN, NaN, NaN, NaN)}

(***************************************************************************)
(* Fix::Create called on a zeroed system, and the layout of an image whose *)
(* fixes are of every kind.                                                *)
(***************************************************************************)
\* MatrixXd::Zero(rows, cols) with its column of constants.
ZeroSystem(rows, cols) ==
  [relationships |-> ZeroMatrix(rows, cols),
   constants |-> Tabulate([i \in 1..rows |-> R0])]

\* fix.Create(index, relationships, constants, locatables_) on a zeroed
\* system of MaxRows rows and four columns for each locatable; the call, with
\* the system it leaves, is what `last` records.
CreateRow(fix, index) ==
  /\ alive
  /\ last' = Call("Create", NoError,
                  <<fix, index,
                    Create(fix, index,
                           ZeroSystem(MaxRows, NumColumns(locatables_)),
                           locatables_)>>,
                  FALSE)
  /\ UNCHANGED <<width_, height_, canvases_, locatables_, fixes_,
                 canvas_locations_, needs_calculate_, parent_, paint_background_,
                 child_canvases_, shapes_, coordinate_system_, located, alive>>

CanvasPart == {"Left", "Right", "Bottom", "Top", "CenterX", "CenterY"}

CanvasDimension == {"X", "Y"}

Registered == {locatables_[i] : i \in 1..Len(locatables_)}

PixelDiffs == {RInt(-5), RInt(10)}

\* The fixes Create is called on: every kind, over the registered locatables.
RowFixes ==
  {FixRelationship(a, pa, b, pb, diff) :
     a \in Registered, b \in Registered, pa \in CanvasPart, pb \in CanvasPart,
     diff \in PixelDiffs}
  \cup {FixScale(a, pa, b, dim, <<1, 4>>) :
          a \in Registered, b \in Registered, pa \in CanvasPart,
          dim \in CanvasDimension}
  \cup {FixRelativeSize(a, d1, b, d2, <<1, 2>>) :
          a \in Registered, b \in Registered, d1 \in CanvasDimension,
          d2 \in CanvasDimension}
  \cup {FixDimensions(a, dim, RInt(120)) :
          a \in Registered, dim \in CanvasDimension}

\* The constructor of the image a fix is made with.
MakeFix(fix) ==
  CASE fix.kind = "FixRelationship" ->
         Relation_Fix(fix.canvas1_num, fix.canvas1_part, fix.canvas2_num,
                      fix.canvas2_part, fix.pixels_diff)
    [] fix.kind = "FixScale" ->
         Scale_Fix(fix.canvas1_num, fix.canvas1_part, fix.canvas2_num,
                   fix.dimension, fix.lambda)
    [] fix.kind = "FixDimensions" ->
         Dimensions_Fix(fix.locatable, fix.dimension, fix.extent)
    [] fix.kind = "FixRelativeSize" ->
         RelativeSize_Fix(fix.canvas1_num, fix.canvas1_dimension, fix.canvas2_num,
                          fix.canvas2_dimension, fix.scale)

LayoutSizes == {<<400, 200>>}

InitLayout ==
  /\ \E size \in LayoutSizes : ImageImpl(size[1], size[2])
  /\ InitBitmapDefault
  /\ painted = << >>
  /\ InitPalette

\* The fixes of the layout, in the order they are made: the second canvas
\* starts a quarter into the master on both axes, is 120 pixels wide and half
\* as high as the master; the locatable that is not a canvas sits 10 pixels
\* from the master's left and bottom and brings its own width and height.
LayoutFixes ==
  <<FixScale(2, "Left", 1, "X", <<1, 4>>),
    FixDimensions(2, "X", RInt(120)),
    FixScale(2, "Bottom", 1, "Y", <<1, 4>>),
    FixRelativeSize(2, "Y", 1, "Y", <<1, 2>>),
    FixRelationship(1, "Left", 101, "Left", RInt(10)),
    FixRelationship(1, "Bottom", 101, "Bottom", RInt(10))>>

\* The fixes of LayoutFixes a caller can make now: those on registered
\* locatables that it has not made yet, in the order of LayoutFixes.
NextLayoutFixes ==
  {k \in 1..Len(LayoutFixes) :
     /\ FixOperands(LayoutFixes[k]) \subseteq Registered
     /\ ~Contains(fixes_, LayoutFixes[k])
     /\ \A j \in 1..(k - 1) :
          FixOperands(LayoutFixes[j]) \subseteq Registered
            => Contains(fixes_, LayoutFixes[j])}

(***************************************************************************)
(* Canvas::SetCoordinates and Canvas::GetCoordinateSystem, and the images  *)
(* whose coordinates are inferred.                                         *)
(***************************************************************************)
\* CoordinateDescription{has_coordinates, left, bottom, right, top}.
CoordinateDescription(l, b, r, t) ==
  [has_coordinates |-> FALSE, left |-> l, bottom |-> b, right |-> r, top |-> t]

\* Canvas::SetCoordinates.
SetCoordinates(canvas, coordinates) ==
  /\ alive
  /\ coordinate_system_' = [coordinate_system_ EXCEPT ![canvas] = coordinates]
  /\ last' = Call("SetCoordinates", NoError, <<>>, FALSE)
  /\ UNCHANGED <<width_, height_, canvases_, locatables_, fixes_,
                 canvas_locations_, needs_calculate_, parent_, paint_background_,
                 child_canvases_, shapes_, located, alive>>

Sides == {"left", "bottom", "right", "top"}

\* canvas->GetCoordinateSystem().side = value: one bound written through the
\* reference GetCoordinateSystem returns.
GetCoordinateSystem(canvas, side, value) ==
  /\ alive
  /\ coordinate_system_' = [coordinate_system_ EXCEPT ![canvas][side] = value]
  /\ last' = Call("GetCoordinateSystem", NoError, <<>>, FALSE)
  /\ UNCHANGED <<width_, height_, canvases_, locatables_, fixes_,
                 canvas_locations_, needs_calculate_, parent_, paint_background_,
                 child_canvases_, shapes_, located, alive>>

\* The bounding boxes of the shapes attached: a shape without coordinates, a
\* shape from 0 to 10 on x at the height 5, a line whose first point alone is
\* in coordinates (a least x and a least y, no greatest), and a shape that
\* lies outside the others.
CoordinateBoxes ==
  {CoordinateBoundingBox(NaN, NaN, NaN, NaN),
   CoordinateBoundingBox(RInt(0), RInt(10), RInt(5), RInt(5)),
   CoordinateBoundingBox(RInt(5), NaN, RInt(5), NaN),
   CoordinateBoundingBox(RInt(12), RInt(20), RInt(-3), RInt(8))}

\* The coordinates a caller sets: the left bound alone, every bound, the top
\* bound alone.
CoordinateDescriptions ==
  {CoordinateDescription(RInt(10), NaN, NaN, NaN),
   CoordinateDescription(RInt(0), RInt(0), RInt(10), RInt(10)),
   CoordinateDescription(NaN, NaN, NaN, R1)}

\* The bound a caller writes through GetCoordinateSystem.
BoundValues == {RInt(30)}

(***************************************************************************)
(* Canvas::PointToPixels and Canvas::DisplacementToPixels.  A double is a  *)
(* rational, NaN, or an infinity: <<1, 0>> and <<-1, 0>>.                  *)
(***************************************************************************)
Infinity(sign) == <<sign, 0>>

IsFinite(a) == a[2] # 0

Sign(a) == IF a[1] > 0 THEN 1 ELSE IF a[1] < 0 THEN -1 ELSE 0

\* a + b of doubles.
DAdd(a, b) ==
  IF IsNaN(a) \/ IsNaN(b) THEN NaN
  ELSE IF IsFinite(a) /\ IsFinite(b) THEN RAdd(a, b)
  ELSE IF ~IsFinite(a) /\ ~IsFinite(b) THEN (IF a = b THEN a ELSE NaN)
  ELSE IF IsFinite(a) THEN b ELSE a

\* a - b of doubles.
DSub(a, b) == DAdd(a, IF IsNaN(b) THEN NaN ELSE <<-b[1], b[2]>>)

\* a * b of doubles.
DMul(a, b) ==
  IF IsNaN(a) \/ IsNaN(b) THEN NaN
  ELSE IF IsFinite(a) /\ IsFinite(b) THEN RMul(a, b)
  ELSE IF Sign(a) * Sign(b) = 0 THEN NaN ELSE Infinity(Sign(a) * Sign(b))

\* a / b of doubles.
DDiv(a, b) ==
  IF IsNaN(a) \/ IsNaN(b) THEN NaN
  ELSE IF ~IsFinite(a)
       THEN (IF IsFinite(b)
             THEN Infinity(Sign(a) * (IF Sign(b) < 0 THEN -1 ELSE 1))
             ELSE NaN)
  ELSE IF ~IsFinite(b) THEN R0
  ELSE IF Sign(b) = 0 THEN (IF Sign(a) = 0 THEN NaN ELSE Infinity(Sign(a)))
  ELSE RDiv(a, b)

LocationType == {"Proportional", "Coordinate", "Pixels"}

\* struct Point.
Point(x, y, type_x, type_y, relative_to_master_x, relative_to_master_y) ==
  [x |-> x, y |-> y, type_x |-> type_x, type_y |-> type_y,
   relative_to_master_x |-> relative_to_master_x,
   relative_to_master_y |-> relative_to_master_y]

\* struct Displacement.
Displacement(dx, dy, type_dx, type_dy) ==
  [dx |-> dx, dy |-> dy, type_dx |-> type_dx, type_dy |-> type_dy]

\* One axis of DisplacementToPixels: the value scaled to the pixels between
\* `low` and `high` of the location, a coordinate by the extent of the
\* coordinate system between low_coordinate and high_coordinate.
DisplacementAxis(value, type, low, high, low_coordinate, high_coordinate) ==
  CASE type = "Coordinate" ->
         DMul(RInt(high - low), DDiv(value, DSub(high_coordinate, low_coordinate)))
    [] type = "Pixels" -> value
    [] type = "Proportional" -> DMul(RInt(high - low), value)

\* One axis of PointToPixels before the origin is added.
PointAxis(value, type, low, high, low_coordinate, high_coordinate) ==
  CASE type = "Coordinate" ->
         DMul(RInt(high - low),
              DDiv(DSub(value, low_coordinate),
                   DSub(high_coordinate, low_coordinate)))
    [] type = "Pixels" -> value
    [] type = "Proportional" -> DMul(RInt(high - low), value)

\* PointToPixels with the origin of the canvas added whatever the flags say.
PointToPixelsFromOrigin(canvas, point) ==
  LET location == canvas_locations_[canvas]
      system == coordinate_system_[canvas]
  IN  Point(DAdd(PointAxis(point.x, point.type_x, location.left, location.right,
                           system.left, system.right), RInt(location.left)),
            DAdd(PointAxis(point.y, point.type_y, location.bottom, location.top,
                           system.bottom, system.top), RInt(location.bottom)),
            "Pixels", "Pixels", TRUE, TRUE)

\* Canvas::PointToPixels.
PointToPixels(canvas, point) ==
  LET location == canvas_locations_[canvas]
      system == coordinate_system_[canvas]
      x == PointAxis(point.x, point.type_x, location.left, location.right,
                     system.left, system.right)
      y == PointAxis(point.y, point.type_y, location.bottom, location.top,
                     system.bottom, system.top)
  IN  Point(IF ~point.relative_to_master_x THEN DAdd(x, RInt(location.left)) ELSE x,
            IF ~point.relative_to_master_y THEN DAdd(y, RInt(location.bottom)) ELSE y,
            "Pixels", "Pixels", TRUE, TRUE)

\* Canvas::DisplacementToPixels.  The types of the result are not set by the
\* code: they are left out of the record.
DisplacementToPixels(canvas, displacement) ==
  LET location == canvas_locations_[canvas]
      system == coordinate_system_[canvas]
  IN  [dx |-> DisplacementAxis(displacement.dx, displacement.type_dx,
                               location.left, location.right,
                               system.left, system.right),
       dy |-> DisplacementAxis(displacement.dy, displacement.type_dy,
                               location.bottom, location.top,
                               system.bottom, system.top)]

\* XiaolinWuThickLine::DrawOnBitmap: the two end points the rasteriser works
\* from.
XiaolinWuThickLineDrawOnBitmap(canvas, first, second) ==
  <<PointToPixels(canvas, first), PointToPixels(canvas, second)>>

\* Ray::DrawOnBitmap: the segment the line is rastered along.
RayDrawOnBitmap(canvas, base_, ray_) ==
  LET base_pixels == PointToPixels(canvas, base_)
      ray_pixels == DisplacementToPixels(canvas, ray_)
      end_point == Point(DAdd(base_pixels.x, ray_pixels.dx),
                         DAdd(base_pixels.y, ray_pixels.dy),
                         "Pixels", "Pixels", FALSE, FALSE)
  IN  XiaolinWuThickLineDrawOnBitmap(canvas, base_pixels, end_point)

\* A call on a canvas that reads the image and changes nothing: its
\* arguments and its result are what `last` records.
Convert(op, arguments, result) ==
  /\ alive
  /\ last' = Call(op, NoError, <<arguments, result>>, FALSE)
  /\ UNCHANGED <<width_, height_, canvases_, locatables_, fixes_,
                 canvas_locations_, needs_calculate_, parent_, paint_background_,
                 child_canvases_, shapes_, coordinate_system_, located, alive>>

\* The calls that convert.
Conversions == {"PointToPixels", "DisplacementToPixels", "Ray::DrawOnBitmap"}

\* The points converted: each type and each flag on each axis.
Points ==
  {Point(x, RInt(2), type_x, type_y, relative_x, relative_y) :
     x \in {RInt(5), <<1, 4>>}, type_x \in LocationType, type_y \in LocationType,
     relative_x \in BOOLEAN, relative_y \in BOOLEAN}

\* The displacements converted.
Displacements ==
  {Displacement(RInt(5), <<1, 2>>, type_dx, type_dy) :
     type_dx \in LocationType, type_dy \in LocationType}

\* The rays drawn: a base in coordinates or in pixels of the canvas, a
\* displacement in coordinates or in pixels.
Rays ==
  {<<Point(RInt(5), RInt(2), type, type, FALSE, FALSE),
     Displacement(RInt(5), <<1, 2>>, type_d, type_d)>> :
     type \in {"Coordinate", "Pixels"}, type_d \in {"Coordinate", "Pixels"}}

\* The coordinates set on a canvas whose points are converted.
PixelCoordinates == {CoordinateDescription(RInt(0), RInt(0), RInt(10), RInt(10))}

(***************************************************************************)
(* Specifications.  Spec registers locatables, relates them and solves;    *)
(* SpecFixes uses the other kinds of fix; SpecScenario builds the inset    *)
(* scenario; SpecRender adds shapes and renders; SpecBitmap drives a       *)
(* raster; SpecPaint lays out a small image and paints it (a process that  *)
(* was aborted while painting makes no further call); SpecLayout calls     *)
(* Create on its own and solves a layout with fixes of every kind;         *)
(* SpecInfer and SpecCoordinates attach shapes and infer coordinates, the  *)
(* second with bounds set by the caller; SpecPixels converts points and    *)
(* displacements on the canvases of a solved layout.                       *)
(***************************************************************************)
vars == <<imageVars, rasterVars, painted, paletteVars>>

Init == InitImage /\ InitBitmapDefault /\ painted = << >> /\ InitPalette

Next ==
  \/ \E loc \in Canvases \cup ExtLocatables :
       RegisterLocatable(loc) /\ UNCHANGED <<rasterVars, painted, paletteVars>>
  \/ \E parent \in Canvases :
       Len(canvases_) < MaxCanvases /\ FloatingSubCanvas(parent)
       /\ UNCHANGED <<rasterVars, painted, paletteVars>>
  \/ \E a \in RelationArgs :
       Len(fixes_) < MaxFixes /\ Exists(a[1]) /\ Exists(a[3])
       /\ Relation_Fix(a[1], a[2], a[3], a[4], a[5]) /\ UNCHANGED <<rasterVars, painted, paletteVars>>
  \/ ClearRelationships /\ UNCHANGED <<rasterVars, painted, paletteVars>>
  \/ CalculateCanvasLocations /\ UNCHANGED <<rasterVars, painted, paletteVars>>

Spec == Init /\ [][Next]_vars

NextFixes ==
  \/ \E parent \in Canvases :
       Len(canvases_) < MaxCanvases /\ FloatingSubCanvas(parent)
       /\ UNCHANGED <<rasterVars, painted, paletteVars>>
  \/ \E a \in ScaleArgs :
       Len(fixes_) < MaxFixes /\ Exists(a[1]) /\ Exists(a[3])
       /\ Scale_Fix(a[1], a[2], a[3], a[4], a[5]) /\ UNCHANGED <<rasterVars, painted, paletteVars>>
  \/ \E a \in DimensionsArgs :
       Len(fixes_) < MaxFixes /\ Exists(a[1])
       /\ Dimensions_Fix(a[1], a[2], a[3]) /\ UNCHANGED <<rasterVars, painted, paletteVars>>
  \/ \E a \in RelativeSizeArgs :
       Len(fixes_) < MaxFixes /\ Exists(a[1]) /\ Exists(a[3])
       /\ RelativeSize_Fix(a[1], a[2], a[3], a[4], a[5]) /\ UNCHANGED <<rasterVars, painted, paletteVars>>
  \/ \E fix \in AddFixArgs :
       Len(fixes_) < MaxFixes /\ (\A loc \in FixOperands(fix) : Exists(loc))
       /\ AddFix(fix, "AddFix") /\ UNCHANGED <<rasterVars, painted, paletteVars>>
  \/ ClearRelationships /\ UNCHANGED <<rasterVars, painted, paletteVars>>
  \/ CalculateCanvasLocations /\ UNCHANGED <<rasterVars, painted, paletteVars>>

SpecFixes == Init /\ [][NextFixes]_vars

NextScenario ==
  \/ Len(canvases_) < MaxCanvases /\ FloatingSubCanvas(master_canvas_)
       /\ UNCHANGED <<rasterVars, painted, paletteVars>>
  \/ \E a \in ScenarioArgs :
       Len(fixes_) < MaxScenarioFixes /\ Exists(a[1]) /\ Exists(a[3])
       /\ Relation_Fix(a[1], a[2], a[3], a[4], a[5]) /\ UNCHANGED <<rasterVars, painted, paletteVars>>
  \/ CalculateCanvasLocations /\ UNCHANGED <<rasterVars, painted, paletteVars>>

SpecScenario == Init /\ [][NextScenario]_vars

NextRender ==
  \/ \E parent \in Canvases :
       Len(canvases_) < MaxCanvases /\ FloatingSubCanvas(parent)
       /\ UNCHANGED <<rasterVars, painted, paletteVars>>
  \/ \E canvas \in Canvases : \E shape \in BoundingBoxes :
       Len(shapes_[canvas]) < MaxShapes /\ AddShape(canvas, shape)
       /\ UNCHANGED <<rasterVars, painted, paletteVars>>
  \/ \E a \in ScenarioArgs :
       Len(fixes_) < MaxFixes /\ Exists(a[1]) /\ Exists(a[3])
       /\ Relation_Fix(a[1], a[2], a[3], a[4], a[5]) /\ UNCHANGED <<rasterVars, painted, paletteVars>>
  \/ ClearRelationships /\ UNCHANGED <<rasterVars, painted, paletteVars>>
  \/ CalculateCanvasCoordinates /\ UNCHANGED <<rasterVars, painted, paletteVars>>
  \/ CalculateImage /\ UNCHANGED <<rasterVars, painted, paletteVars>>
  \/ ToBitmap /\ UNCHANGED <<rasterVars, painted, paletteVars>>

SpecRender == Init /\ [][NextRender]_vars

InitRaster == InitImage /\ InitBitmap /\ painted = << >> /\ InitPalette

NextBitmap ==
  \/ \E size \in RasterSizes : SetSize(size[1], size[2]) /\ UNCHANGED <<imageVars, painted, paletteVars>>
  \/ \E r \in Regions :
       SetPermittedRegion(r[1], r[2], r[3], r[4]) /\ UNCHANGED <<imageVars, painted, paletteVars>>
  \/ \E type \in ZOverwriteType : SetOverwriteType(type) /\ UNCHANGED <<imageVars, painted, paletteVars>>
  \/ \E x \in PixelXs : \E y \in PixelYs : \E color \in Colours :
       \E z \in DepthValues : SetPixel(x, y, color, z) /\ UNCHANGED <<imageVars, painted, paletteVars>>

SpecBitmap == InitRaster /\ [][NextBitmap]_vars

NextPaint ==
  \/ \E parent \in Canvases :
       raster_alive /\ Len(canvases_) < MaxPaintCanvases
       /\ FloatingSubCanvas(parent)
       /\ UNCHANGED <<rasterVars, painted, paletteVars>>
  \/ \E canvas \in Canvases : \E shape \in PaintShapes :
       raster_alive /\ NumShapes < MaxPaintShapes
       /\ AddShape(canvas, shape)
       /\ UNCHANGED <<rasterVars, painted, paletteVars>>
  \/ \E canvas \in Canvases :
       raster_alive /\ (\A other \in Canvases : paint_background_[other])
       /\ SetPaintBackground(canvas, FALSE)
       /\ UNCHANGED <<rasterVars, painted, paletteVars>>
  \/ /\ raster_alive /\ Len(fixes_) < Len(PaintFixes)
     /\ LET a == PaintFixes[Len(fixes_) + 1]
        IN  Exists(a[1]) /\ Exists(a[3])
            /\ Relation_Fix(a[1], a[2], a[3], a[4], a[5])
     /\ UNCHANGED <<rasterVars, painted, paletteVars>>
  \/ Len(fixes_) = 4 * (Len(canvases_) - 1) /\ ToBitmapOutput
       /\ UNCHANGED paletteVars

SpecPaint == InitPaint /\ [][NextPaint]_vars

NextLayout ==
  \/ \E loc \in ExtLocatables :
       RegisterLocatable(loc) /\ UNCHANGED <<rasterVars, painted, paletteVars>>
  \/ Len(canvases_) < MaxCanvases /\ FloatingSubCanvas(master_canvas_)
       /\ UNCHANGED <<rasterVars, painted, paletteVars>>
  \/ \E fix \in RowFixes : \E index \in 0..(MaxRows - 1) :
       fixes_ = << >> /\ last.op # "Create" /\ CreateRow(fix, index)
       /\ UNCHANGED <<rasterVars, painted, paletteVars>>
  \/ \E k \in NextLayoutFixes :
       MakeFix(LayoutFixes[k]) /\ UNCHANGED <<rasterVars, painted, paletteVars>>
  \/ fixes_ # << >> /\ CalculateCanvasLocations
       /\ UNCHANGED <<rasterVars, painted, paletteVars>>

SpecLayout == InitLayout /\ [][NextLayout]_vars

NextInfer ==
  \/ \E canvas \in Canvases : \E shape \in CoordinateBoxes :
       Len(shapes_[canvas]) < MaxCoordinateShapes /\ AddShape(canvas, shape)
       /\ UNCHANGED <<rasterVars, painted, paletteVars>>
  \/ CalculateCanvasCoordinates /\ UNCHANGED <<rasterVars, painted, paletteVars>>
  \/ CalculateImage /\ UNCHANGED <<rasterVars, painted, paletteVars>>

SpecInfer == Init /\ [][NextInfer]_vars

NextCoordinates ==
  \/ \E canvas \in Canvases : \E shape \in CoordinateBoxes :
       Len(shapes_[canvas]) < MaxCoordinateShapes /\ AddShape(canvas, shape)
       /\ UNCHANGED <<rasterVars, painted, paletteVars>>
  \/ \E canvas \in Canvases : \E coordinates \in CoordinateDescriptions :
       SetCoordinates(canvas, coordinates) /\ UNCHANGED <<rasterVars, painted, paletteVars>>
  \/ \E canvas \in Canvases : \E side \in Sides : \E value \in BoundValues :
       GetCoordinateSystem(canvas, side, value)
       /\ UNCHANGED <<rasterVars, painted, paletteVars>>
  \/ CalculateCanvasCoordinates /\ UNCHANGED <<rasterVars, painted, paletteVars>>
  \/ CalculateImage /\ UNCHANGED <<rasterVars, painted, paletteVars>>

SpecCoordinates == Init /\ [][NextCoordinates]_vars

NextPixels ==
  \/ Len(canvases_) < MaxCanvases /\ FloatingSubCanvas(master_canvas_)
       /\ UNCHANGED <<rasterVars, painted, paletteVars>>
  \/ \E k \in NextLayoutFixes :
       MakeFix(LayoutFixes[k]) /\ UNCHANGED <<rasterVars, painted, paletteVars>>
  \/ \E canvas \in Canvases : \E coordinates \in PixelCoordinates :
       coordinate_system_[canvas] # coordinates
       /\ SetCoordinates(canvas, coordinates) /\ UNCHANGED <<rasterVars, painted, paletteVars>>
  \/ fixes_ # << >> /\ CalculateImage
       /\ UNCHANGED <<rasterVars, painted, paletteVars>>
  \/ \E canvas \in Canvases : \E point \in Points :
       last.op \notin Conversions /\
       Convert("PointToPixels", <<canvas, point>>, PointToPixels(canvas, point))
       /\ UNCHANGED <<rasterVars, painted, paletteVars>>
  \/ \E canvas \in Canvases : \E displacement \in Displacements :
       last.op \notin Conversions /\
       Convert("DisplacementToPixels", <<canvas, displacement>>,
               DisplacementToPixels(canvas, displacement))
       /\ UNCHANGED <<rasterVars, painted, paletteVars>>
  \/ \E canvas \in Canvases : \E ray \in Rays :
       last.op \notin Conversions /\
       Convert("Ray::DrawOnBitmap", <<canvas, ray[1], ray[2]>>,
               RayDrawOnBitmap(canvas, ray[1], ray[2]))
       /\ UNCHANGED <<rasterVars, painted, paletteVars>>

SpecPixels == InitLayout /\ [][NextPixels]_vars

\* A figure and a manager are separate objects: a behaviour works on one.
FigureUntouched ==
  /\ plot_palette_index_ = 0 /\ scatter_palette_index_ = 0
  /\ error_palette_index_ = 0 /\ drawn.op \in {"Figure"} \cup ManagerOps

ManagerUntouched == drawn.op \notin ManagerOps

NextPalette ==
  \/ \E points \in PlotPoints : \E label \in PlotLabels :
       ManagerUntouched /\ Plot(points, label)
       /\ UNCHANGED <<imageVars, rasterVars, painted, managerVars>>
  \/ \E points \in PlotPoints : \E color \in {NoColor, Black} :
       \E label \in PlotLabels :
         ManagerUntouched /\ Scatter(points, color, label)
         /\ UNCHANGED <<imageVars, rasterVars, painted, managerVars>>
  \/ \E points \in PlotPoints : \E label \in PlotLabels :
       ManagerUntouched /\ PlotErrorbars(points, label)
       /\ UNCHANGED <<imageVars, rasterVars, painted, managerVars>>
  \/ \E colors \in TestPalettes :
       FigureUntouched /\ SetDefaultColorPalette(colors)
       /\ UNCHANGED <<imageVars, rasterVars, painted, figureVars>>
  \/ \E type \in RenderTypes : \E colors \in TestPalettes :
       FigureUntouched /\ SetColorPalette(type, colors)
       /\ UNCHANGED <<imageVars, rasterVars, painted, figureVars>>
  \/ \E type \in RenderTypes :
       FigureUntouched /\ RequestColor(type)
       /\ UNCHANGED <<imageVars, rasterVars, painted, figureVars>>
  \/ \E type \in RenderTypes :
       FigureUntouched /\ ResetColorCycle(type)
       /\ UNCHANGED <<imageVars, rasterVars, painted, figureVars>>

SpecPalette == Init /\ [][NextPalette]_vars

\* The fixes of the layouts diagnosed: each side of the second canvas tied
\* to the master, and a second tie of its left side that contradicts the
\* first.
DiagnosedArgs ==
  ScenarioArgs \cup {<<2, "Left", 1, "Left", RInt(20)>>}

NextDiagnostics ==
  \/ Len(canvases_) < MaxCanvases /\ FloatingSubCanvas(master_canvas_)
       /\ UNCHANGED <<rasterVars, painted, paletteVars>>
  \/ \E a \in DiagnosedArgs :
       Len(fixes_) < MaxScenarioFixes /\ Exists(a[1]) /\ Exists(a[3])
       /\ Relation_Fix(a[1], a[2], a[3], a[4], a[5])
       /\ UNCHANGED <<rasterVars, painted, paletteVars>>
  \/ CalculateCanvasLocationsPrinting
       /\ UNCHANGED <<rasterVars, painted, paletteVars>>

SpecDiagnostics == Init /\ [][NextDiagnostics]_vars

(***************************************************************************)
(* The properties checked.                                                 *)
(***************************************************************************)
\* A call of CalculateCanvasLocations has just returned to its caller.
Returned ==
  alive /\ last.op = "CalculateCanvasLocations" /\ last.thrown = NoError

\* No fix names an unregistered locatable and every locatable is a canvas: the
\* solve stays inside the matrix and inside canvases_.
InBounds ==
  ~WritesOutsideMatrix(fixes_, locatables_) /\ Len(locatables_) = Len(canvases_)

\* C1: after every CalculateCanvasLocations that returns without throwing, for
\* any registered canvases and any fixes, GetLocation(master canvas) is
\* {0, 0, image width, image height}.
C1_MasterPinned ==
  Returned => GetLocation(master_canvas_) = CanvasLocation(0, 0, width_, height_)

C1_Witness ==
  Returned /\ Len(canvases_) = 2 /\ Len(fixes_) = 2

\* The fixes of the inset scenario, in any order, on the master and one child,
\* have just been solved.
ScenarioSolved ==
  /\ Returned
  /\ width_ = 200 /\ height_ = 100
  /\ Len(canvases_) = 2
  /\ Len(fixes_) = 4
  /\ {fixes_[i] : i \in 1..4} =
       {FixRelationship(a[1], a[2], a[3], a[4], a[5]) : a \in ScenarioArgs}

\* C2, as stated: on a 200x100 image with the master and one child, the fixes
\* Relation_Fix(child, Left, master, Left, 10), (child, Right, master, Right,
\* -10), (child, Top, master, Top, -10), (child, Bottom, master, Bottom, 10)
\* give the child the rectangle (10, 10, 190, 90).
C2_ChildInset ==
  ScenarioSolved => GetLocation(2) = CanvasLocation(10, 10, 190, 90)

\* C2, amended: each fix states canvas2.part - canvas1.part = pixels_diff, so
\* with the child named first the same four fixes give the child the rectangle
\* (-10, -10, 210, 110), ten pixels outside the master on every side.
C2_ChildOutset ==
  ScenarioSolved => GetLocation(2) = CanvasLocation(-10, -10, 210, 110)

C2_Witness ==
  ScenarioSolved /\ GetLocation(2).left = -10 /\ GetLocation(2).top = 110

\* The calls the claim counts as mutations of the image.
Mutations ==
  {"AddShape", "Relation_Fix", "Scale_Fix", "Dimensions_Fix", "RelativeSize_Fix",
   "AddFix", "ClearRelationships"}

\* C3: every mutation (AddShape, adding a fix, ClearRelationships) sets the
\* needs-recompute flag, so that a ToBitmap that follows it runs CalculateImage.
C3_MutationsSetFlag ==
  (alive /\ last.op \in Mutations) => needs_calculate_

\* C4: when the number of rows, 4 + intrinsic widths and heights + fixes,
\* differs from 4R for R registered locatables, CalculateCanvasLocations fails
\* with an error.  Stated for the solves that stay in bounds.
C4_NonSquareFails ==
  (/\ alive /\ last.op = "CalculateCanvasLocations"
   /\ fixes_ # <<>>
   /\ InBounds
   /\ Dimensionality(fixes_, locatables_) # NumColumns(locatables_))
  => last.thrown # NoError

\* The assembled system is square and its matrix is not of full rank.
SquareAndSingular ==
  /\ fixes_ # <<>>
  /\ Dimensionality(fixes_, locatables_) = NumColumns(locatables_)
  /\ Bind(AssembleSystem(fixes_, locatables_), LAMBDA sys :
       Rank(sys.relationships, sys.constants) < NumColumns(locatables_))

\* C5: when the assembled system is square but singular,
\* CalculateCanvasLocations ends in an error instead of assigning rectangles
\* from a value picked for the free unknown.
C5_SingularFails ==
  (alive /\ last.op = "CalculateCanvasLocations" /\ InBounds /\ SquareAndSingular)
  => last.thrown # NoError

\* C6: two calls of CalculateCanvasLocations in a row, with nothing changed in
\* between, assign every canvas the same rectangle.
C6_SolveTwiceSame ==
  [][(Returned /\ Returned')
     => \A canvas \in Canvases : GetLocation(canvas)' = GetLocation(canvas)]_vars

\* C7: the first RegisterLocatable of an object appends it and returns its
\* index, the number of locatables registered before it; a later one returns
\* nullopt and leaves the list unchanged; either way the index of every object
\* registered before stays what it was.
C7_RegisterIdempotent ==
  [][\A loc \in Canvases \cup ExtLocatables :
       RegisterLocatable(loc) =>
         /\ IF \E i \in 1..Len(locatables_) : locatables_[i] = loc
            THEN last'.value = <<>> /\ locatables_' = locatables_
            ELSE /\ last'.value = <<Len(locatables_)>>
                 /\ locatables_' = Append(locatables_, loc)
         /\ \A i \in 1..Len(locatables_) : locatables_'[i] = locatables_[i]]_vars

C7_Witness ==
  /\ last.op = "RegisterLocatable" /\ last.value = <<>>
  /\ Len(locatables_) = 3
  /\ \E i \in 1..3 : locatables_[i] \in ExtLocatables

\* C8: a fix that names a locatable not registered with the image is refused
\* by the call that makes it, so every stored fix names registered locatables.
C8_StoredFixesRegistered ==
  \A i \in 1..Len(fixes_) :
    \A loc \in FixOperands(fixes_[i]) : Contains(locatables_, loc)

\* C9: after any sequence of writes to a pixel of the permitted region, the
\* depth stored for the pixel is the greatest depth written to it.
C9_StoredIsGreatestWritten ==
  raster_alive =>
    \A p \in DOMAIN written :
      DepthIndex(p[1], p[2]) \in DOMAIN zarray_
        => zarray_[DepthIndex(p[1], p[2])] = written[p]

\* The call SetPixel(x, y, color, z) addresses a pixel of the raster that the
\* permitted region admits and whose depth entry holds exactly z.
TieAt(call) ==
  /\ call.op = "SetPixel"
  /\ InPermittedRegion(call.x, call.y)
  /\ DepthIndex(call.x, call.y) \in DOMAIN zarray_
  /\ WrittenPixel(call.x, call.y) \in DOMAIN bitmap_.pixels
  /\ zarray_[DepthIndex(call.x, call.y)] = call.z

\* C10: a new raster has the policy GreaterOrEqual; a SetPixel that returns and
\* whose depth equals the stored depth of the pixel writes its colour under
\* GreaterOrEqual and leaves colours and depths as they were under Greater.
C10_TieBreak ==
  /\ raster_last.op = "Bitmap" => overwrite_type_ = "GreaterOrEqual"
  /\ [][(TieAt(raster_last') /\ raster_alive') =>
          IF overwrite_type_ = "GreaterOrEqual"
          THEN /\ bitmap_'.pixels[WrittenPixel(raster_last'.x, raster_last'.y)]
                    = raster_last'.color
               /\ zarray_'[DepthIndex(raster_last'.x, raster_last'.y)]
                    = raster_last'.z
          ELSE bitmap_' = bitmap_ /\ zarray_' = zarray_]_vars

\* A write at the stored depth has just been refused under Greater: the depth
\* entry equals the depth of the call and the pixel keeps another colour.
C10_Witness ==
  /\ raster_alive
  /\ overwrite_type_ = "Greater"
  /\ TieAt(raster_last)
  /\ bitmap_.pixels[WrittenPixel(raster_last.x, raster_last.y)] \in
       Colours \ {raster_last.color}

\* A SetPixel(x, y, color, z) that is the first write to a pixel of a raster
\* created with a width and a height, inside the permitted region.
FirstWriteAt(call) ==
  /\ call.op = "SetPixel"
  /\ 0 <= call.x /\ call.x < impl_width_
  /\ 0 <= call.y /\ call.y < impl_height_
  /\ InPermittedRegion(call.x, call.y)
  /\ <<call.x, call.y>> \notin DOMAIN written

\* C11: a raster created with a width and a height has width x height depth
\* entries, all unset (NaN); the first SetPixel to a pixel of the raster inside
\* the permitted region addresses one of these entries and is accepted
\* whatever its depth: the call returns, the entry holds the depth of the call
\* and the pixel its colour.
C11_SizedRasterUnset ==
  /\ (raster_last.op = "Bitmap" /\ impl_width_ > 0 /\ impl_height_ > 0) =>
       /\ zsize = impl_width_ * impl_height_
       /\ \A i \in 0..(impl_width_ * impl_height_ - 1) :
            i \in DOMAIN zarray_ /\ IsNaN(zarray_[i])
  /\ [][(raster_alive /\ FirstWriteAt(raster_last')) =>
          /\ raster_alive'
          /\ DepthIndex(raster_last'.x, raster_last'.y) < zsize
          /\ zarray_'[DepthIndex(raster_last'.x, raster_last'.y)] = raster_last'.z
          /\ bitmap_'.pixels[WrittenPixel(raster_last'.x, raster_last'.y)]
               = raster_last'.color]_vars

C13_RegionClamped ==
  [][\A r \in Regions :
       SetPermittedRegion(r[1], r[2], r[3], r[4]) =>
         /\ pxlow_' = Max(0, r[1])
         /\ pxhi_' = Min(impl_width_, r[2])
         /\ pylow_' = Max(0, r[3])
         /\ pyhi_' = Min(impl_height_, r[4])
         /\ 0 <= pxlow_' /\ 0 <= pylow_'
         /\ pxhi_' <= impl_width_ /\ pyhi_' <= impl_height_]_vars

\* A canvas together with the canvases above it in the tree.
RECURSIVE SelfAndAncestors(_)
SelfAndAncestors(canvas) ==
  IF canvas \notin DOMAIN parent_ THEN {}
  ELSE {canvas} \cup SelfAndAncestors(parent_[canvas])

InRectangle(pixel, location) ==
  /\ location.left <= pixel[1] /\ pixel[1] < location.right
  /\ location.bottom <= pixel[2] /\ pixel[2] < location.top

\* ToBitmap has just returned the bitmap it painted.
Rendered ==
  /\ alive /\ raster_alive
  /\ last.op = "ToBitmap" /\ last.thrown = NoError
  /\ raster_last.op = "ToBitmap"

\* C14: every pixel written while a canvas paints itself and its descendants
\* lies inside the solved rectangle of that canvas: a write made by a canvas
\* lies inside its own rectangle and inside that of each of its ancestors.
C14_WritesInsideRegion ==
  Rendered =>
    \A i \in 1..Len(painted) :
      \A region \in SelfAndAncestors(painted[i].canvas) :
        \A pixel \in painted[i].pixels : InRectangle(pixel, GetLocation(region))

\* The painting steps of the history: what was done, by which canvas, for
\* which of its shapes.
RECURSIVE Steps(_, _)
Steps(log, i) ==
  IF i > Len(log) THEN << >>
  ELSE (IF log[i].op = "SetPermittedRegion" THEN << >>
        ELSE <<<<log[i].op, log[i].canvas, log[i].shape>>>>)
       \o Steps(log, i + 1)

\* The steps the traversal owes for the subtree of a canvas: its background
\* when the flag is on, its shapes in the order they were added, then the
\* subtree of each child in the order the children were created (canvases are
\* numbered in creation order).
RECURSIVE SubtreeOrder(_)
RECURSIVE ChildrenOrder(_, _)
ChildrenOrder(canvas, child) ==
  IF child > Len(canvases_) THEN << >>
  ELSE (IF parent_[child] = canvas THEN SubtreeOrder(child) ELSE << >>)
       \o ChildrenOrder(canvas, child + 1)

SubtreeOrder(canvas) ==
  (IF paint_background_[canvas] THEN <<<<"paintBackground", canvas, 0>>>> ELSE << >>)
  \o [i \in 1..Len(shapes_[canvas]) |-> <<"DrawOnBitmap", canvas, i>>]
  \o ChildrenOrder(canvas, 1)

\* C15: rendering visits the tree depth-first from the master and does, for
\* each canvas, the background fill (when the paint flag is on), then the
\* shapes in the order they were added, then each child's whole subtree in the
\* order the children were created.
C15_TraversalOrder ==
  Rendered => Steps(painted, 1) = SubtreeOrder(master_canvas_)

\* A rendering of a master with two shapes and two children, one of which
\* does not paint its background.
C15_Witness ==
  /\ Rendered
  /\ Len(canvases_) = 3 /\ parent_[2] = 1 /\ parent_[3] = 1
  /\ Len(shapes_[1]) = 2
  /\ ~paint_background_[2]
  /\ Len(painted) = 7

\* The number of times an element occurs in a sequence.
Occurrences(seq, element) == Cardinality({i \in 1..Len(seq) : seq[i] = element})

\* C16: after any sequence of FloatingSubCanvas calls exactly one canvas, the
\* master, has no parent; every other canvas has one parent, occurs once in
\* the child list of that parent and in no other child list, reaches the
\* master by parent links, and is registered once as a canvas and once as a
\* locatable.
C16_CanvasTree ==
  /\ {canvas \in Canvases : parent_[canvas] = 0} = {master_canvas_}
  /\ \A canvas \in Canvases :
       /\ Occurrences(canvases_, canvas) = 1
       /\ Occurrences(locatables_, canvas) = 1
       /\ master_canvas_ \in SelfAndAncestors(canvas)
       /\ canvas # master_canvas_ =>
            /\ parent_[canvas] \in Canvases
            /\ \A other \in Canvases :
                 Occurrences(child_canvases_[other], canvas) =
                   IF other = parent_[canvas] THEN 1 ELSE 0
  /\ \A other \in Canvases : Occurrences(child_canvases_[other], master_canvas_) = 0

\* A tree of three generations: the third canvas is a child of the second.
C16_Witness ==
  Len(canvases_) = 3 /\ parent_[3] = 2 /\ parent_[2] = 1

\* Create has just been called on a fix of the given kind.
RowCall(kind) ==
  alive /\ last.op = "Create" /\ last.value[1].kind = kind

\* The part of a coefficient on `part` of column block `block` that belongs in
\* column col (counted from 0): all of it for a side, half of it on each of
\* the two sides a centre lies between.
PartShare(value, part, block, col) ==
  CASE part = "Left" -> IF col = 4 * block + 0 THEN value ELSE R0
    [] part = "Bottom" -> IF col = 4 * block + 1 THEN value ELSE R0
    [] part = "Right" -> IF col = 4 * block + 2 THEN value ELSE R0
    [] part = "Top" -> IF col = 4 * block + 3 THEN value ELSE R0
    [] part = "CenterX" ->
         IF col \in {4 * block + 0, 4 * block + 2}
         THEN RMul(<<1, 2>>, value) ELSE R0
    [] part = "CenterY" ->
         IF col \in {4 * block + 1, 4 * block + 3}
         THEN RMul(<<1, 2>>, value) ELSE R0

\* The column block of a registered locatable.
Block(loc) ==
  (CHOOSE i \in 1..Len(locatables_) : locatables_[i] = loc) - 1

\* The system the call left has expected(col) in every column of the row it
\* was called on, `constant` as the constant of that row, and zero anywhere
\* else.
OnlyRow(expected(_), constant) ==
  LET index == last.value[2]
      sys == last.value[3]
  IN  /\ Len(sys.relationships) = MaxRows
      /\ \A r \in 1..MaxRows :
           /\ Len(sys.relationships[r]) = NumColumns(locatables_)
           /\ \A col \in 0..(NumColumns(locatables_) - 1) :
                sys.relationships[r][col + 1]
                  = IF r = index + 1 THEN expected(col) ELSE R0
           /\ sys.constants[r] = IF r = index + 1 THEN constant ELSE R0

\* C17: for all regions A and B, all parts partA and partB and every offset
\* D, FixRelationship::Create on a zeroed row leaves -1 on A.partA, +1 on
\* B.partB and the constant D, where Left/Bottom/Right/Top of block i are the
\* columns 4i+0/4i+1/4i+2/4i+3 and a centre puts half of its coefficient on
\* each of its two sides; the coefficients add up when A = B.
C17_RelationshipRow ==
  RowCall("FixRelationship") =>
    LET fix == last.value[1]
        expected(col) ==
          RAdd(PartShare(RNeg(R1), fix.canvas1_part, Block(fix.canvas1_num), col),
               PartShare(R1, fix.canvas2_part, Block(fix.canvas2_num), col))
    IN  OnlyRow(expected, fix.pixels_diff)

\* A row of one region against itself, centre against side, in the second
\* row of a system of three column blocks: -1/2 + 1 on Left, -1/2 on Right.
C17_Witness ==
  /\ RowCall("FixRelationship")
  /\ Len(locatables_) = 3
  /\ last.value[1] = FixRelationship(2, "CenterX", 2, "Left", RInt(-5))
  /\ last.value[2] = 1
  /\ last.value[3].relationships[2][5] = <<1, 2>>
  /\ last.value[3].relationships[2][7] = <<-1, 2>>
  /\ last.value[3].constants[2] = RInt(-5)

\* The low and the high side of a rectangle on a dimension.
LowSide(dim) == IF dim = "X" THEN "Left" ELSE "Bottom"

HighSide(dim) == IF dim = "X" THEN "Right" ELSE "Top"

\* The position of a part of a rectangle.
PartOf(location, part) ==
  CASE part = "Left" -> RInt(location.left)
    [] part = "Bottom" -> RInt(location.bottom)
    [] part = "Right" -> RInt(location.right)
    [] part = "Top" -> RInt(location.top)
    [] part = "CenterX" -> RMul(<<1, 2>>, RInt(location.left + location.right))
    [] part = "CenterY" -> RMul(<<1, 2>>, RInt(location.bottom + location.top))

\* The extent of a rectangle on a dimension.
ExtentOf(location, dim) ==
  RSub(PartOf(location, HighSide(dim)), PartOf(location, LowSide(dim)))

\* The fixes name registered locatables only and, with the rows of the master
\* and the rows made for widths and heights, determine every unknown.
WellPosed ==
  /\ ~WritesOutsideMatrix(fixes_, locatables_)
  /\ Dimensionality(fixes_, locatables_) = NumColumns(locatables_)
  /\ Bind(AssembleSystem(fixes_, locatables_), LAMBDA sys :
       Rank(sys.relationships, sys.constants) = NumColumns(locatables_))

\* The solved layouts a caller sees: the rectangles handed to the locatables
\* by SetLocation and, when every locatable is a canvas, those GetLocation
\* gives.
SolvedLayouts ==
  {located} \cup (IF InBounds THEN {canvas_locations_} ELSE {})

InferenceCalls == {"CalculateCanvasCoordinates", "CalculateImage"}

\* The inference has just run and the call has returned.
Inferred == alive /\ last.op \in InferenceCalls /\ last.thrown = NoError

\* C21: a logical bound that is set when the inference runs, as every bound is
\* that the caller set through SetCoordinates or GetCoordinateSystem, is never
\* changed by it, whatever bounding boxes the shapes report and however often
\* it runs; only bounds that are NaN are filled in.
C21_SetBoundsKept ==
  [][last'.op \in InferenceCalls =>
       \A canvas \in Canvases : \A side \in Sides :
         ~IsNaN(coordinate_system_[canvas][side]) =>
           coordinate_system_'[canvas][side] = coordinate_system_[canvas][side]]_vars

\* The left bound was set to 10 and shapes from 0 to 20 were attached: the
\* inference has filled in the right bound and left the left one at 10.
C21_Witness ==
  /\ Inferred
  /\ shapes_[master_canvas_]
       = <<CoordinateBoundingBox(RInt(0), RInt(10), RInt(5), RInt(5)),
           CoordinateBoundingBox(RInt(12), RInt(20), RInt(-3), RInt(8))>>
  /\ coordinate_system_[master_canvas_].left = RInt(10)
  /\ coordinate_system_[master_canvas_].right = RInt(20)
  /\ coordinate_system_[master_canvas_].bottom = RInt(-3)

\* The values the shapes of a canvas contributed on an axis: every least and
\* every greatest value reported that is not NaN.
Contributed(canvas, low, high) ==
  {v \in {shapes_[canvas][i][low] : i \in 1..Len(shapes_[canvas])}
         \cup {shapes_[canvas][i][high] : i \in 1..Len(shapes_[canvas])} :
     ~IsNaN(v)}

Smallest(values) == CHOOSE v \in values : \A w \in values : ~RLess(w, v)

Largest(values) == CHOOSE v \in values : \A w \in values : ~RLess(v, w)

\* The bounds of an axis the values contributed call for.
AxisBounds(values) ==
  IF values = {}
  THEN <<RNeg(default_coordinate_epsilon), default_coordinate_epsilon>>
  ELSE IF Cardinality(values) = 1
       THEN <<RSub(Smallest(values), default_coordinate_epsilon),
              RAdd(Smallest(values), default_coordinate_epsilon)>>
       ELSE <<Smallest(values), Largest(values)>>

\* C22: after the inference, on each axis on its own and with no bound set by
\* the caller, the bounds are -eps and +eps when no shape contributed a value
\* on the axis, v - eps and v + eps when every value contributed is v, and
\* otherwise the smallest and the largest value contributed.
C22_InferredBounds ==
  Inferred =>
    \A canvas \in Canvases :
      /\ <<coordinate_system_[canvas].left, coordinate_system_[canvas].right>>
           = AxisBounds(Contributed(canvas, "left", "right"))
      /\ <<coordinate_system_[canvas].bottom, coordinate_system_[canvas].top>>
           = AxisBounds(Contributed(canvas, "bottom", "top"))

\* C23: after the inference every bound of every canvas is set and the extent
\* is not zero on either axis, for any shapes and any mix of bounds set by the
\* caller and inferred.
C23_ExtentNotZero ==
  Inferred =>
    \A canvas \in Canvases :
      /\ \A side \in Sides : ~IsNaN(coordinate_system_[canvas][side])
      /\ coordinate_system_[canvas].right # coordinate_system_[canvas].left
      /\ coordinate_system_[canvas].top # coordinate_system_[canvas].bottom

\* C24: the bounds inferred are computed anew by every CalculateImage: with no
\* bound set by the caller, they are what the shapes now attached give, not
\* what an earlier inference left.
C24_InferredAnew ==
  (alive /\ last.op = "CalculateImage" /\ last.thrown = NoError) =>
    \A canvas \in Canvases :
      coordinate_system_[canvas]
        = describeCoordinates(DefaultCoordinates,
                              getMinMaxCoordinates(shapes_[canvas]))

\* A value of a location type converted to pixels on an axis where the canvas
\* is `extent` pixels long and its coordinates run from min to max.
ConvertedValue(value, type, extent, min, max) ==
  CASE type = "Pixels" -> value
    [] type = "Proportional" -> DMul(value, RInt(extent))
    [] type = "Coordinate" ->
         DMul(DDiv(DSub(value, min), DSub(max, min)), RInt(extent))

\* C25: PointToPixels handles each axis on its own, for the three location
\* types: with relative_to_master false the result is the converted value
\* plus the pixel origin of the canvas (left for x, bottom for y), with the
\* flag true it is the converted value alone; Pixels convert to themselves,
\* Proportional values are multiplied by the pixel extent of the canvas and
\* Coordinate values give (value - min) / (max - min) times the pixel extent.
C25_PointToPixels ==
  (alive /\ last.op = "PointToPixels") =>
    LET canvas == last.value[1][1]
        point == last.value[1][2]
        result == last.value[2]
        location == GetLocation(canvas)
        system == coordinate_system_[canvas]
        x == ConvertedValue(point.x, point.type_x, location.right - location.left,
                            system.left, system.right)
        y == ConvertedValue(point.y, point.type_y, location.top - location.bottom,
                            system.bottom, system.top)
    IN  /\ result.x = IF point.relative_to_master_x
                      THEN x ELSE DAdd(x, RInt(location.left))
        /\ result.y = IF point.relative_to_master_y
                      THEN y ELSE DAdd(y, RInt(location.bottom))

\* On the canvas solved to (100, 50, 220, 150) with coordinates from 0 to 10:
\* the coordinate x = 5 from the origin of the canvas is pixel 160, the
\* proportion y = 2 relative to the master is pixel 200.
C25_Witness ==
  /\ alive /\ last.op = "PointToPixels"
  /\ last.value[1] = <<2, Point(RInt(5), RInt(2), "Coordinate", "Proportional",
                               FALSE, TRUE)>>
  /\ GetLocation(2) = CanvasLocation(100, 50, 220, 150)
  /\ coordinate_system_[2].left = RInt(0) /\ coordinate_system_[2].right = RInt(10)
  /\ last.value[2].x = RInt(160)
  /\ last.value[2].y = RInt(200)

\* C30: the segment Ray::DrawOnBitmap has rastered starts at
\* P = PointToPixels(base) and ends at P + DisplacementToPixels(ray), in
\* absolute pixels, wherever the canvas lies: a point that is converted
\* already is not scaled or moved by the origin of the canvas again.
C30_RaySegment ==
  (alive /\ last.op = "Ray::DrawOnBitmap") =>
    LET canvas == last.value[1][1]
        P == PointToPixels(canvas, last.value[1][2])
        D == DisplacementToPixels(canvas, last.value[1][3])
        segment == last.value[2]
    IN  /\ segment[1].x = P.x /\ segment[1].y = P.y
        /\ segment[2].x = DAdd(P.x, D.dx) /\ segment[2].y = DAdd(P.y, D.dy)

(***************************************************************************)
(* C26.  Colours are handed out in cycles.                                 *)
(***************************************************************************)
\* The calls of a figure that draw in a colour of the palette.
FigureOps == {"Plot", "Scatter", "PlotErrorbars"}

\* The index a call of a figure draws its colour at.
FigureIndex(op) ==
  CASE op = "Plot" -> plot_palette_index_
    [] op = "Scatter" -> scatter_palette_index_
    [] op = "PlotErrorbars" -> error_palette_index_

InPalette(palette, color) == \E i \in 1..Len(palette) : palette[i] = color

\* The place of a colour in a palette of distinct colours, from 1.
Position(palette, color) == CHOOSE i \in 1..Len(palette) : palette[i] = color

\* The place after place i, the first after the last.
After(palette, i) == IF i = Len(palette) THEN 1 ELSE i + 1

\* A call on the figure took its colour from the palette.
FigureRequested(op, drawing) ==
  drawing.op = op /\ InPalette(color_palette_, drawing.color)

\* A colour was requested of the manager for a type.
ManagerRequested(type, drawing) ==
  drawing.op = "RequestColor" /\ drawing.type = type

SideColumns == <<"Left", "Bottom", "Right", "Top">>

SideWord(side) ==
  CASE side = "Left" -> "left"
    [] side = "Bottom" -> "bottom"
    [] side = "Right" -> "right"
    [] side = "Top" -> "height"

\* Changing the unknown in `column` alone, the others at their solved
\* values, leaves the residual of every row as it is.
FreeUnknown(sys, canvas_positions, column) ==
  Times(sys.relationships, Nudged(canvas_positions, column))
    = Times(sys.relationships, canvas_positions)

\* The diagnostics pass has run and its report is in `last`.
Diagnosed ==
  /\ alive /\ last.op = "CalculateCanvasLocations" /\ fixes_ # <<>>
  /\ ~WritesOutsideMatrix(fixes_, locatables_)

\* C27: after the diagnostics pass, a side of a region is reported as
\* unconstrained exactly when changing the unknown of that side alone
\* leaves the residual of every row unchanged.
C27_UnderConstrainedReported ==
  Diagnosed =>
    Bind(AssembleSystem(fixes_, locatables_), LAMBDA sys :
      Bind(FullPivLuSolve(sys.relationships, sys.constants),
           LAMBDA canvas_positions :
             \A i \in 1..Len(canvases_) : \A k \in 1..4 :
               (\E n \in 1..Len(last.value) :
                  last.value[n] = <<i - 1, SideWord(SideColumns[k])>>)
               <=> FreeUnknown(sys, canvas_positions,
                               4 * GetIndex(locatables_, canvases_[i]) + (k - 1))))

(***************************************************************************)
(* C28.  Writing and reading address the same pixel.                       *)
(***************************************************************************)
\* The pixels of the raster.
RasterPixels == (0..(bitmap_.width - 1)) \X (0..(bitmap_.height - 1))

\* The depth test of setPixel lets the write of depth z to (x, y) through,
\* on depth storage that has been sized.
AcceptedByDepthTest(x, y, z) ==
  /\ 0 <= DepthIndex(x, y) /\ DepthIndex(x, y) < zsize
  /\ Overwrites(zarray_[DepthIndex(x, y)], z, overwrite_type_)

\* C28: a SetPixel(x, y, c, z) inside the raster and the permitted region
\* that the depth test accepts makes GetPixel(x, y) return c, and the depth
\* entry it consulted is the entry of no other pixel of the raster.
C28_WriteReadSamePixel ==
  [][\A x \in PixelXs : \A y \in PixelYs :
       (/\ raster_last' = RasterCall("SetPixel", x, y, raster_last'.color,
                                     raster_last'.z)
        /\ raster_alive'
        /\ <<x, y>> \in RasterPixels
        /\ InPermittedRegion(x, y)
        /\ AcceptedByDepthTest(x, y, raster_last'.z))
       => /\ GetPixel(x, y)' = raster_last'.color
          /\ \A other \in RasterPixels \ {<<x, y>>} :
               DepthIndex(other[1], other[2]) # DepthIndex(x, y)]_vars

(***************************************************************************)
(* C29.  Every locatable is given its own block.                           *)
(***************************************************************************)
\* C29: when CalculateCanvasLocations has solved the system and returned,
\* every registered locatable has been handed the truncated values of its
\* own block of four columns, and GetLocation of every canvas is the block
\* at the index of the canvas among the locatables, whatever the order in
\* which canvases and other locatables were registered.
C29_OwnBlock ==
  (Returned /\ fixes_ # <<>> /\ ~WritesOutsideMatrix(fixes_, locatables_))
  => Bind(AssembleSystem(fixes_, locatables_), LAMBDA sys :
       Bind(FullPivLuSolve(sys.relationships, sys.constants),
            LAMBDA canvas_positions :
              /\ \A i \in 1..Len(locatables_) :
                   located[locatables_[i]]
                     = BlockLocation(canvas_positions,
                                     GetIndex(locatables_, locatables_[i]))
              /\ \A canvas \in Canvases :
                   GetLocation(canvas)
                     = BlockLocation(canvas_positions,
                                     GetIndex(locatables_, canvas))))

====
